---- MODULE Spec2Model ----
(***************************************************************************)
(* A model of the ACME scoring engine: the eight metric functions of       *)
(* acmecli/metrics/repo_scan.py, the timing wrapper of                     *)
(* acmecli/metrics/base.py and the orchestrator compute_all_scores of      *)
(* acmecli/scoring.py.                                                     *)
(*                                                                         *)
(* Numbers.  A Python float is modelled as an exact rational [n, d] in     *)
(* lowest terms with d > 0, so that equality of values is equality of      *)
(* records.  The one irrational operation, math.pow with exponent 1.5, is  *)
(* computed in fixed point (see SqrtQ).  Sizes in bytes are counted in     *)
(* units of 50,000,000 bytes, since the model checker's integers have 32   *)
(* bits: L = 50,000,000 is 1 unit, U = 500,000,000 is 10 units.            *)
(* Where a property depends on the rounding of float operations (the sums  *)
(* and quotients of rampup_score, dataset_quality_score and                *)
(* bus_factor_score called on their own), the operation returns the float  *)
(* of MantBits significant bits nearest to its exact result (see Fl).      *)
(*                                                                         *)
(* Text.  A Python str is a sequence of one-character strings.             *)
(*                                                                         *)
(* Time.  The clock (time.perf_counter) counts ticks, TicksPerMs to the    *)
(* millisecond; int(dt * 1000) is the floor of ticks / TicksPerMs.         *)
(***************************************************************************)
EXTENDS Integers, Sequences, FiniteSets, TLC

VARIABLES
    ctx,         \* the context handed to compute_all_scores
    pc,          \* position of the call: "idle", "metric", "aggregate", "done"
    rng,         \* state of the process-global random generator (module random)
    now,         \* time.perf_counter(), in ticks since the current call was entered
    t_start,     \* compute_all_scores' t_start
    dur,         \* how long each step of this call takes, in ticks
    m,           \* (score, ms) pairs the metrics have returned so far
    elapsed_ms,  \* compute_all_scores' elapsed_ms
    result,      \* the record the current call returned (none while it runs)
    first,       \* the record the first call on this context returned
    calls,       \* completed calls on this context
    \* one run of main (acmecli/main.py)
    args,        \* the parsed command line
    urls,        \* the URLs of the URL file
    threads,     \* whether the process can start a thread pool
    mpc,         \* position of the main thread
    models,      \* main's models
    invalid,     \* main's invalid
    fut,         \* the futures of the pool, one per element of models
    handled,     \* the futures as_completed has yielded
    idx,         \* position of the sequential fallback loop in models
    stdout,      \* the records written to stdout
    results,     \* main's results
    failures,    \* main's failures
    error_lines, \* the lines appended to the error file
    exit_status, \* the exit status of the process (-1 while it runs)
    \* one call of a metric function (acmecli/metrics/repo_scan.py)
    call,        \* the function called and its arguments
    ret          \* the (score, ms) pair the call returned (none before it returns)

\* the variables of a call of compute_all_scores (rng is the process's)
callvars == <<ctx, pc, now, t_start, dur, m, elapsed_ms, result, first, calls>>
\* the variables of a run of main
mainvars == <<args, urls, threads, mpc, models, invalid, fut, handled, idx, stdout,
              results, failures, error_lines, exit_status>>
\* the variables of a call of one metric function
fnvars == <<call, ret>>

vars == <<ctx, pc, rng, now, t_start, dur, m, elapsed_ms, result, first, calls,
          args, urls, threads, mpc, models, invalid, fut, handled, idx, stdout,
          results, failures, error_lines, exit_status, call, ret>>

----------------------------------------------------------------------------
(* Bounds of the model *)

\* ticks of the clock per millisecond
TicksPerMs == 2
\* every step of a call takes 0..MaxBaseTicks ticks, except a slow one
MaxBaseTicks == 1
\* a slow metric call takes SlowMs milliseconds
SlowMs == 40
\* the random generator starts in a state 0..MaxSeed
MaxSeed == 1
\* the random generator has RngMod states
RngMod == 64
\* latency overrides of a context are -1..MaxOverride milliseconds
MaxOverride == 2
\* compute_all_scores is called at most MaxCalls times on a context
MaxCalls == 2
\* fixed-point scale of the square root in math.pow(x, 1.5)
SqrtScale == 1000

----------------------------------------------------------------------------
(* Arithmetic: Python floats as exact rationals *)

Abs(x) == IF x < 0 THEN -x ELSE x
Max(a, b) == IF a >= b THEN a ELSE b
Min(a, b) == IF a <= b THEN a ELSE b

RECURSIVE Gcd(_, _)
Gcd(a, b) == IF b = 0 THEN a ELSE Gcd(b, a % b)

\* the rational n/d (d # 0) in lowest terms, with a positive denominator
Q(n, d) ==
    LET g == Gcd(Abs(n), Abs(d))
        s == IF d < 0 THEN -1 ELSE 1
    IN [n |-> s * (n \div g), d |-> s * (d \div g)]

Zero == [n |-> 0, d |-> 1]
One == [n |-> 1, d |-> 1]
Half == [n |-> 1, d |-> 2]
\* float(i) of an int i
F(i) == [n |-> i, d |-> 1]

QAdd(a, b) ==
    LET g == Gcd(a.d, b.d)
    IN Q(a.n * (b.d \div g) + b.n * (a.d \div g), (a.d \div g) * b.d)
QNeg(a) == [n |-> -a.n, d |-> a.d]
QSub(a, b) == QAdd(a, QNeg(b))
QMul(a, b) ==
    LET g1 == Gcd(Abs(a.n), b.d)
        g2 == Gcd(Abs(b.n), a.d)
    IN Q((a.n \div g1) * (b.n \div g2), (a.d \div g2) * (b.d \div g1))
\* a / b, b # 0
QDiv(a, b) == QMul(a, Q(b.d, b.n))
QLe(a, b) == a.n * b.d <= b.n * a.d
QLt(a, b) == a.n * b.d < b.n * a.d
QMax(a, b) == IF QLe(b, a) THEN a ELSE b
QMin(a, b) == IF QLe(a, b) THEN a ELSE b

RECURSIVE QSum(_)
QSum(s) == IF s = <<>> THEN Zero ELSE QAdd(Head(s), QSum(Tail(s)))

RECURSIVE ISqrtIter(_, _, _)
ISqrtIter(x, lo, hi) ==
    IF lo >= hi THEN lo
    ELSE LET mid == (lo + hi + 1) \div 2
         IN IF mid * mid <= x THEN ISqrtIter(x, mid, hi)
            ELSE ISqrtIter(x, lo, mid - 1)
\* floor of the square root of an integer x >= 0
ISqrt(x) == ISqrtIter(x, 0, Min(x, 46340))

\* math.pow(x, 0.5) of a rational x >= 0, rounded down to a multiple of
\* 1 / (x.d * SqrtScale); exact when x is the square of a rational
SqrtQ(x) == Q(ISqrt(x.n * x.d * SqrtScale * SqrtScale), x.d * SqrtScale)

RECURSIVE QPowInt(_, _)
QPowInt(x, k) == IF k = 0 THEN One ELSE QMul(x, QPowInt(x, k - 1))

\* math.pow(x, a) for x >= 0 and an exponent a whose denominator is 1 or 2
Pow(x, a) ==
    LET whole == QPowInt(x, a.n \div a.d)
    IN IF a.n % a.d = 0 THEN whole ELSE QMul(whole, SqrtQ(x))

----------------------------------------------------------------------------
(* Text: str as a sequence of characters *)

UpperToLower ==
    ("A" :> "a") @@ ("B" :> "b") @@ ("C" :> "c") @@ ("D" :> "d") @@ ("E" :> "e") @@
    ("F" :> "f") @@ ("G" :> "g") @@ ("H" :> "h") @@ ("I" :> "i") @@ ("J" :> "j") @@
    ("K" :> "k") @@ ("L" :> "l") @@ ("M" :> "m") @@ ("N" :> "n") @@ ("O" :> "o") @@
    ("P" :> "p") @@ ("Q" :> "q") @@ ("R" :> "r") @@ ("S" :> "s") @@ ("T" :> "t") @@
    ("U" :> "u") @@ ("V" :> "v") @@ ("W" :> "w") @@ ("X" :> "x") @@ ("Y" :> "y") @@
    ("Z" :> "z")

\* str.lower()
Lower(text) ==
    [i \in 1..Len(text) |->
        IF text[i] \in DOMAIN UpperToLower THEN UpperToLower[text[i]] ELSE text[i]]

\* pat in text
Contains(text, pat) ==
    \E i \in 0..(Len(text) - Len(pat)) :
        \A j \in 1..Len(pat) : text[i + j] = pat[j]

----------------------------------------------------------------------------
(* The metric functions of acmecli/metrics/repo_scan.py, before decoration *)

\* default thresholds of size_score, in units of 50,000,000 bytes
SIZE_L == 1
SIZE_U == 10
\* default saturation constant of bus_factor_score
BUS_K == 5
\* default ceilings of code_quality_score
EMAX == 50
TMAX == 20

\* size_score rising from L to U: (total_bytes - L) / (U - L)
size_score_rising(total_bytes, L, U) ==
    IF U <= L THEN Zero
    ELSE QMax(Zero, QMin(One, Q(total_bytes - L, U - L)))

size_score(total_bytes, L, U) ==
    IF U <= L THEN Zero
    ELSE QMax(Zero, QMin(One, Q(U - total_bytes, U - L)))

LGPL_DASH == <<"l", "g", "p", "l", "-", "2", ".", "1">>
LGPL_V == <<"l", "g", "p", "l", " ", "v", "2", ".", "1">>
LGPL_LONG ==
    <<"g", "n", "u", " ", "l", "e", "s", "s", "e", "r", " ", "g", "e", "n", "e",
      "r", "a", "l", " ", "p", "u", "b", "l", "i", "c", " ", "l", "i", "c", "e",
      "n", "s", "e", " ", "v", "2", ".", "1">>

\* license_score taking text of blanks only for missing text
license_score_stripped(license_text) ==
    IF SelectSeq(license_text, LAMBDA ch : ch # " ") = <<>> THEN Half
    ELSE LET tex == Lower(license_text)
         IN IF Contains(tex, LGPL_DASH) \/ Contains(tex, LGPL_V) \/ Contains(tex, LGPL_LONG)
            THEN One
            ELSE Zero

license_score(license_text) ==
    IF license_text = <<>> THEN Half
    ELSE LET tex == Lower(license_text)
         IN IF Contains(tex, LGPL_DASH) \/ Contains(tex, LGPL_V) \/ Contains(tex, LGPL_LONG)
            THEN One
            ELSE Zero

rampup_score(readme, quickstart, tutorials, api_docs, reproducibility) ==
    LET vals == <<readme, quickstart, tutorials, api_docs, reproducibility>>
    IN QDiv(QSum(vals), F(5))

bus_factor_score(contributors, k) ==
    LET c == Max(0, contributors)
    IN IF c + k > 0 THEN Q(c, c + k) ELSE Zero

\* int(bool(b))
BoolInt(b) == IF b THEN 1 ELSE 0

\* dataset_and_code_score counting the dataset only when the code is present
dataset_and_code_score_nested(dataset_present, code_present) ==
    Q(BoolInt(dataset_present /\ code_present) + BoolInt(code_present), 2)

dataset_and_code_score(dataset_present, code_present) ==
    Q(BoolInt(dataset_present) + BoolInt(code_present), 2)

dataset_quality_score(source, license_, splits, ethics) ==
    QDiv(QAdd(QAdd(QAdd(source, license_), splits), ethics), F(4))

\* code_quality_score without the floor of its components at 0
code_quality_score_unfloored(flake8_errors, isort_sorted, mypy_errors, emax, tmax) ==
    LET flake8_score == IF emax > 0 THEN QSub(One, Q(flake8_errors, emax)) ELSE Zero
        isort_score == IF isort_sorted THEN One ELSE Zero
        mypy_score == IF tmax > 0 THEN QSub(One, Q(mypy_errors, tmax)) ELSE Zero
    IN QAdd(QAdd(QMul(Q(4, 10), flake8_score), QMul(Q(2, 10), isort_score)),
            QMul(Q(4, 10), mypy_score))

code_quality_score(flake8_errors, isort_sorted, mypy_errors, emax, tmax) ==
    LET flake8_score == IF emax > 0 THEN QMax(Zero, QSub(One, Q(flake8_errors, emax))) ELSE Zero
        isort_score == IF isort_sorted THEN One ELSE Zero
        mypy_score == IF tmax > 0 THEN QMax(Zero, QSub(One, Q(mypy_errors, tmax))) ELSE Zero
    IN QAdd(QAdd(QMul(Q(4, 10), flake8_score), QMul(Q(2, 10), isort_score)),
            QMul(Q(4, 10), mypy_score))

perf_claims_score(benchmarks_present, citations_present) ==
    Q(BoolInt(benchmarks_present) + BoolInt(citations_present), 2)

----------------------------------------------------------------------------
(* The timing wrapper of acmecli/metrics/base.py *)

\* fn.__name__ of the eight decorated functions, in the order compute_all_scores
\* calls them
FnNames == <<
    <<"s", "i", "z", "e", "_", "s", "c", "o", "r", "e">>,
    <<"l", "i", "c", "e", "n", "s", "e", "_", "s", "c", "o", "r", "e">>,
    <<"r", "a", "m", "p", "u", "p", "_", "s", "c", "o", "r", "e">>,
    <<"b", "u", "s", "_", "f", "a", "c", "t", "o", "r", "_", "s", "c", "o", "r", "e">>,
    <<"d", "a", "t", "a", "s", "e", "t", "_", "a", "n", "d", "_", "c", "o", "d", "e",
      "_", "s", "c", "o", "r", "e">>,
    <<"d", "a", "t", "a", "s", "e", "t", "_", "q", "u", "a", "l", "i", "t", "y",
      "_", "s", "c", "o", "r", "e">>,
    <<"c", "o", "d", "e", "_", "q", "u", "a", "l", "i", "t", "y", "_", "s", "c", "o", "r", "e">>,
    <<"p", "e", "r", "f", "_", "c", "l", "a", "i", "m", "s", "_", "s", "c", "o", "r", "e">> >>

\* the bounds (a, b) of random.randint(a, b) that the wrapper picks by fn_name
SimulatedRange(fn_name) ==
    IF Contains(fn_name, <<"n", "e", "t", "_", "s", "c", "o", "r", "e">>)
       \/ Contains(fn_name, <<"n", "e", "t">>) THEN <<100, 200>>
    ELSE IF Contains(fn_name, <<"r", "a", "m", "p">>) THEN <<30, 60>>
    ELSE IF Contains(fn_name, <<"b", "u", "s">>) THEN <<15, 35>>
    ELSE IF Contains(fn_name, <<"p", "e", "r", "f", "o", "r", "m", "a", "n", "c", "e">>)
            \/ Contains(fn_name, <<"c", "l", "a", "i", "m", "s">>) THEN <<25, 45>>
    ELSE IF Contains(fn_name, <<"l", "i", "c", "e", "n", "s", "e">>) THEN <<8, 18>>
    ELSE IF Contains(fn_name, <<"s", "i", "z", "e">>) THEN <<35, 65>>
    ELSE IF Contains(fn_name, <<"d", "a", "t", "a", "s", "e", "t">>) THEN <<10, 25>>
    ELSE IF Contains(fn_name, <<"c", "o", "d", "e">>) THEN <<15, 30>>
    ELSE <<5, 20>>

\* random.randint(a, b) drawn in generator state r: some integer of a..b that the
\* state determines
RandInt(a, b, r) == a + (r % (b - a + 1))
\* the generator's state after one draw
NextRng(r) == (5 * r + 3) % RngMod

\* the wrapper lowering the score by its latency
timed_wrapper_penalty(fn_name, score, ticks, r) ==
    LET actual_dt_ms == ticks \div TicksPerMs
        range == SimulatedRange(fn_name)
        simulated_latency == RandInt(range[1], range[2], r)
        dt_ms == Max(actual_dt_ms, simulated_latency)
    IN <<QMax(Zero, QMin(One, QMul(score, Q(1000 - dt_ms, 1000)))), Max(0, dt_ms)>>

\* what wrapper returns for a call of fn that returned `score` after `ticks` ticks
\* of the clock, the generator being in state r
timed_wrapper(fn_name, score, ticks, r) ==
    LET actual_dt_ms == ticks \div TicksPerMs
        range == SimulatedRange(fn_name)
        simulated_latency == RandInt(range[1], range[2], r)
        dt_ms == Max(actual_dt_ms, simulated_latency)
    IN <<QMax(Zero, QMin(One, score)), Max(0, dt_ms)>>

----------------------------------------------------------------------------
(* acmecli/scoring.py *)

\* DEFAULT_WEIGHTS with the weights of size and license exchanged
DEFAULT_WEIGHTS_swapped ==
    [size |-> Q(20, 100),
     license |-> Q(5, 100),
     ramp_up_time |-> Q(15, 100),
     bus_factor |-> Q(10, 100),
     dataset_and_code |-> Q(20, 100),
     dataset_quality |-> Q(5, 100),
     code_quality |-> Q(15, 100),
     performance_claims |-> Q(10, 100)]

\* DEFAULT_WEIGHTS with every weight halved
DEFAULT_WEIGHTS_halved ==
    [size |-> Q(5, 200),
     license |-> Q(20, 200),
     ramp_up_time |-> Q(15, 200),
     bus_factor |-> Q(10, 200),
     dataset_and_code |-> Q(20, 200),
     dataset_quality |-> Q(5, 200),
     code_quality |-> Q(15, 200),
     performance_claims |-> Q(10, 200)]

\* DEFAULT_WEIGHTS with license raised to 0.25 and nothing lowered
DEFAULT_WEIGHTS_heavy ==
    [size |-> Q(5, 100),
     license |-> Q(25, 100),
     ramp_up_time |-> Q(15, 100),
     bus_factor |-> Q(10, 100),
     dataset_and_code |-> Q(20, 100),
     dataset_quality |-> Q(5, 100),
     code_quality |-> Q(15, 100),
     performance_claims |-> Q(10, 100)]

DEFAULT_WEIGHTS ==
    [size |-> Q(5, 100),
     license |-> Q(20, 100),
     ramp_up_time |-> Q(15, 100),
     bus_factor |-> Q(10, 100),
     dataset_and_code |-> Q(20, 100),
     dataset_quality |-> Q(5, 100),
     code_quality |-> Q(15, 100),
     performance_claims |-> Q(10, 100)]

\* clamp01 returning a percentage
clamp01_percent(x) == QMax(Zero, QMin(F(100), QMul(F(100), x)))

\* clamp01 without its upper bound
clamp01_floor(x) == QMax(Zero, x)

clamp01(x) == QMax(Zero, QMin(One, x))

\* params without the aws_server entry
DeviceParams_three ==
    [raspberry_pi |-> <<3, Q(3, 2)>>,
     jetson_nano |-> <<6, Q(3, 2)>>,
     desktop_pc |-> <<40, Q(2, 1)>>]

\* params of _device_size_scores: capacity C in units of 50,000,000 bytes, and
\* the sharpness a (1.5 = 3/2)
DeviceParams ==
    [raspberry_pi |-> <<3, Q(3, 2)>>,
     jetson_nano |-> <<6, Q(3, 2)>>,
     desktop_pc |-> <<40, Q(2, 1)>>,
     aws_server |-> <<80, Q(2, 1)>>]

\* _device_size_scores giving every device the linear size score
device_size_scores_linear(total_bytes) ==
    [device \in DOMAIN DeviceParams |-> clamp01(size_score(total_bytes, SIZE_L, SIZE_U))]

device_size_scores(total_bytes) ==
    LET S == Max(0, total_bytes)
        params == DeviceParams
    IN [device \in DOMAIN params |->
            LET C == params[device][1]
                a == params[device][2]
                ratio == IF C > 0 THEN Q(S, C) ELSE Zero
                score == QDiv(One, QAdd(One, Pow(QMax(Zero, ratio), a)))
            IN clamp01(score)]

\* the empty dict
EmptyMap == <<>>
\* mapping.get(key, default)
Get(mapping, key, default) == IF key \in DOMAIN mapping THEN mapping[key] ELSE default

\* the keys of compute_all_scores' scores, in the order the metrics are called
ScoreKeys == <<"size", "license", "ramp_up_time", "bus_factor", "dataset_and_code",
               "dataset_quality", "code_quality", "performance_claims">>
\* the keys of latencies_default, in the same order
LatencyKeys == <<"size_score_latency", "license_latency", "ramp_up_time_latency",
                 "bus_factor_latency", "dataset_and_code_score_latency",
                 "dataset_quality_latency", "code_quality_latency",
                 "performance_claims_latency">>
NumMetrics == Len(ScoreKeys)
LatencyKeySet == {LatencyKeys[i] : i \in 1..NumMetrics}

\* the raw score the i-th metric call of compute_all_scores computes from context c:
\* the call's arguments are pulled from c with their defaults
RawCall(i, c) ==
    CASE i = 1 -> size_score(Get(c, "total_bytes", 0), SIZE_L, SIZE_U)
      [] i = 2 -> license_score(Get(c, "license_text", <<>>))
      [] i = 3 -> LET d == Get(c, "docs", EmptyMap)
                  IN rampup_score(Get(d, "readme", Zero), Get(d, "quickstart", Zero),
                                  Get(d, "tutorials", Zero), Get(d, "api_docs", Zero),
                                  Get(d, "reproducibility", Zero))
      [] i = 4 -> bus_factor_score(Get(c, "contributors", 0), BUS_K)
      [] i = 5 -> dataset_and_code_score(Get(c, "dataset_present", FALSE),
                                         Get(c, "code_present", FALSE))
      [] i = 6 -> LET dd == Get(c, "dataset_doc", EmptyMap)
                  IN dataset_quality_score(Get(dd, "source", Zero), Get(dd, "license", Zero),
                                           Get(dd, "splits", Zero), Get(dd, "ethics", Zero))
      [] i = 7 -> code_quality_score(Get(c, "flake8_errors", 0), Get(c, "isort_sorted", TRUE),
                                     Get(c, "mypy_errors", 0), EMAX, TMAX)
      [] i = 8 -> LET p == Get(c, "perf", EmptyMap)
                  IN perf_claims_score(Get(p, "benchmarks", FALSE), Get(p, "citations", FALSE))

\* scores: every metric's score, clamped again
Scores(mm) == [k \in DOMAIN mm |-> clamp01(mm[k][1])]

\* latencies that ignore the context's overrides
Latencies_local(c, mm) ==
    LET latencies_default == [k \in LatencyKeySet |->
            LET i == CHOOSE j \in 1..NumMetrics : LatencyKeys[j] = k
            IN mm[ScoreKeys[i]][2]]
    IN [k \in DOMAIN latencies_default |-> Max(1, latencies_default[k])]

\* latencies without the floor of 1
Latencies_nofloor(c, mm) ==
    LET latencies_ctx == Get(c, "latencies", EmptyMap)
        latencies_default == [k \in LatencyKeySet |->
            LET i == CHOOSE j \in 1..NumMetrics : LatencyKeys[j] = k
            IN mm[ScoreKeys[i]][2]]
    IN [k \in DOMAIN latencies_default |-> Get(latencies_ctx, k, latencies_default[k])]

\* latencies: the context's override where there is one, else the metric's own
\* timing, and at least 1
Latencies(c, mm) ==
    LET latencies_ctx == Get(c, "latencies", EmptyMap)
        latencies_default == [k \in LatencyKeySet |->
            LET i == CHOOSE j \in 1..NumMetrics : LatencyKeys[j] = k
            IN mm[ScoreKeys[i]][2]]
    IN [k \in DOMAIN latencies_default |-> Max(1, Get(latencies_ctx, k, latencies_default[k]))]

RECURSIVE WeightedSum(_, _, _)
WeightedSum(keys, scores, weights) ==
    IF keys = {} THEN Zero
    ELSE LET k == CHOOSE x \in keys : TRUE
         IN QAdd(QMul(scores[k], weights[k]), WeightedSum(keys \ {k}, scores, weights))

\* net = sum(scores[k] * DEFAULT_WEIGHTS[k] for k in DEFAULT_WEIGHTS)
NetScore(scores) == WeightedSum(DOMAIN DEFAULT_WEIGHTS, scores, DEFAULT_WEIGHTS)

RECURSIVE MaxOf(_)
MaxOf(S) ==
    LET x == CHOOSE y \in S : TRUE
    IN IF S = {x} THEN x ELSE Max(x, MaxOf(S \ {x}))

RECURSIVE SumOf(_, _)
SumOf(f, keys) ==
    IF keys = {} THEN 0
    ELSE LET k == CHOOSE x \in keys : TRUE IN f[k] + SumOf(f, keys \ {k})

\* net_latency as the sum of the metric latencies plus the overhead
NetLatency_sum(latencies, elapsed) ==
    SumOf(latencies, DOMAIN latencies) + Max(1, elapsed)

\* net_latency: the slowest metric plus the coordinator's overhead
NetLatency(latencies, elapsed) ==
    LET max_metric == IF DOMAIN latencies # {} THEN MaxOf({latencies[k] : k \in DOMAIN latencies})
                      ELSE 1
        overhead == Max(1, elapsed)
    IN max_metric + overhead

\* the record compute_all_scores returns for context c, the metrics having
\* returned mm, after `elapsed` milliseconds
ResultRecord(c, mm, elapsed) ==
    LET scores == Scores(mm)
        latencies == Latencies(c, mm)
        size_obj == device_size_scores(Get(c, "total_bytes", 0))
        net == NetScore(scores)
    IN [net_score |-> clamp01(net),
        net_score_latency |-> NetLatency(latencies, elapsed),
        ramp_up_time |-> scores["ramp_up_time"],
        ramp_up_time_latency |-> latencies["ramp_up_time_latency"],
        bus_factor |-> scores["bus_factor"],
        bus_factor_latency |-> latencies["bus_factor_latency"],
        performance_claims |-> scores["performance_claims"],
        performance_claims_latency |-> latencies["performance_claims_latency"],
        license |-> scores["license"],
        license_latency |-> latencies["license_latency"],
        size_score |-> size_obj,
        size_score_latency |-> latencies["size_score_latency"],
        dataset_and_code_score |-> scores["dataset_and_code"],
        dataset_and_code_score_latency |-> latencies["dataset_and_code_score_latency"],
        dataset_quality |-> scores["dataset_quality"],
        dataset_quality_latency |-> latencies["dataset_quality_latency"],
        code_quality |-> scores["code_quality"],
        code_quality_latency |-> latencies["code_quality_latency"]]

----------------------------------------------------------------------------
(* The contexts compute_all_scores is called on *)

TXT_LGPL == <<"L", "G", "P", "L", "-", "2", ".", "1">>
TXT_MIT == <<"m", "i", "t">>

\* the context of tests/test_scoring.py
GoodCtx ==
    [total_bytes |-> 2,
     license_text |-> TXT_LGPL,
     docs |-> [readme |-> One, quickstart |-> One, tutorials |-> One, api_docs |-> One,
               reproducibility |-> Half],
     contributors |-> 5,
     dataset_present |-> TRUE,
     code_present |-> TRUE,
     dataset_doc |-> [source |-> One, license |-> One, splits |-> One, ethics |-> Half],
     flake8_errors |-> 5,
     isort_sorted |-> TRUE,
     mypy_errors |-> 3,
     perf |-> [benchmarks |-> TRUE, citations |-> TRUE]]

\* the context of get_fallback_context (the keys compute_all_scores never reads
\* left out)
FallbackCtx ==
    [total_bytes |-> 2,
     license_text |-> <<>>,
     docs |-> [readme |-> Half, quickstart |-> Zero, tutorials |-> Zero, api_docs |-> Zero,
               reproducibility |-> Zero],
     contributors |-> 1,
     dataset_present |-> FALSE,
     code_present |-> FALSE,
     dataset_doc |-> [source |-> Zero, license |-> Zero, splits |-> Zero, ethics |-> Zero],
     flake8_errors |-> 20,
     isort_sorted |-> FALSE,
     mypy_errors |-> 10,
     perf |-> [benchmarks |-> FALSE, citations |-> FALSE]]

\* a well-typed context whose numbers lie outside their conventional ranges
WildCtx ==
    [total_bytes |-> -1,
     license_text |-> TXT_MIT,
     docs |-> [readme |-> F(2), quickstart |-> F(2), tutorials |-> F(3), api_docs |-> One,
               reproducibility |-> F(2)],
     contributors |-> -3,
     dataset_present |-> TRUE,
     code_present |-> FALSE,
     dataset_doc |-> [source |-> F(-1), license |-> F(-2), splits |-> Zero, ethics |-> Half],
     flake8_errors |-> -50,
     isort_sorted |-> FALSE,
     mypy_errors |-> -20,
     perf |-> [benchmarks |-> FALSE, citations |-> TRUE]]

Drop(f, k) == [x \in DOMAIN f \ {k} |-> f[x]]
With(f, k, v) == (k :> v) @@ f
Only(f, k) == [x \in DOMAIN f \cap {k} |-> f[x]]

Bases == {GoodCtx, FallbackCtx, WildCtx}
ScalarKeys == {"total_bytes", "license_text", "contributors", "dataset_present",
               "code_present", "flake8_errors", "isort_sorted", "mypy_errors"}
MappingKeys == {"docs", "dataset_doc", "perf"}

\* latency overrides: none, one key, all eight keys, a key that is not one of
\* the eight, alone or beside one that is
OverrideValues == (-1)..MaxOverride
LatencyMaps ==
    {EmptyMap}
    \cup {k :> v : k \in LatencyKeySet, v \in OverrideValues}
    \cup {[k \in LatencyKeySet |-> v] : v \in OverrideValues}
    \cup {"unknown_latency" :> v : v \in OverrideValues}
    \cup {("unknown_latency" :> v) @@ ("size_score_latency" :> w) :
            v \in OverrideValues, w \in {0, MaxOverride}}

\* values that replace one key of a context
Variations ==
    {<<"total_bytes", v>> : v \in {0, 1, 3, 6, 10, 40, 80, 200}}
    \cup {<<"contributors", v>> : v \in {0, 1, 20}}
    \cup {<<"flake8_errors", v>> : v \in {0, 50, 10000}}
    \cup {<<"mypy_errors", v>> : v \in {0, 20, 10000}}

Contexts ==
    Bases
    \cup {EmptyMap}
    \cup {Drop(b, k) : b \in Bases, k \in ScalarKeys \cup MappingKeys}
    \cup {Only(b, k) : b \in Bases, k \in ScalarKeys \cup MappingKeys}
    \cup {With(b, mk, Drop(b[mk], k)) : b \in Bases, <<mk, k>> \in
            UNION {{<<x, y>> : y \in DOMAIN GoodCtx[x]} : x \in MappingKeys}}
    \cup {With(b, mk, EmptyMap) : b \in Bases, mk \in MappingKeys}
    \cup {With(GoodCtx, kv[1], kv[2]) : kv \in Variations}
    \cup {With(b, "latencies", l) : b \in {GoodCtx, EmptyMap}, l \in LatencyMaps}

----------------------------------------------------------------------------
(* The calls *)

\* how long the steps of one call take: the eight metric calls and the
\* aggregation each take `base` ticks; or they take no time but for the second
\* metric call (license_score), which is slower than any simulated latency of
\* its range
Profiles ==
    {[i \in 1..(NumMetrics + 1) |-> base] : base \in 0..MaxBaseTicks}
    \cup {[i \in 1..(NumMetrics + 1) |-> IF i = 2 THEN SlowMs * TicksPerMs ELSE 0]}

NoResult == <<>>

\* main is not running
NoRun ==
    /\ args = [url_file |-> "", summary |-> FALSE, fail_fast |-> FALSE, error_file |-> ""]
    /\ urls = <<>>
    /\ threads = TRUE
    /\ mpc = "none"
    /\ models = <<>>
    /\ invalid = <<>>
    /\ fut = <<>>
    /\ handled = {}
    /\ idx = 0
    /\ stdout = <<>>
    /\ results = <<>>
    /\ failures = <<>>
    /\ error_lines = <<>>
    /\ exit_status = -1

\* no metric function is called on its own
NoFn ==
    /\ call = [fn |-> "none"]
    /\ ret = <<>>

Init ==
    /\ ctx \in Contexts
    /\ pc = "idle"
    /\ rng \in 0..MaxSeed
    /\ now = 0
    /\ t_start = 0
    /\ dur = [i \in 1..(NumMetrics + 1) |-> 0]
    /\ m = EmptyMap
    /\ elapsed_ms = 0
    /\ result = NoResult
    /\ first = NoResult
    /\ calls = 0
    /\ NoRun
    /\ NoFn

\* compute_all_scores(ctx) is entered: t_start = time.perf_counter().  Only
\* differences of clock readings are defined, so the reading at entry is taken
\* as the origin of the clock.
Start ==
    /\ pc \in {"idle", "done"}
    /\ calls < MaxCalls
    /\ pc' = "metric"
    /\ now' = 0
    /\ t_start' = now'
    /\ m' = EmptyMap
    /\ elapsed_ms' = 0
    /\ result' = NoResult
    /\ dur' \in Profiles
    /\ UNCHANGED <<ctx, rng, first, calls>>
    /\ UNCHANGED <<mainvars, fnvars>>

\* CallMetric reading the nested mappings with ctx.setdefault(key, {}) in
\* place of ctx.get(key, {})
CallMetric_setdefault ==
    /\ pc = "metric"
    /\ LET i == Cardinality(DOMAIN m) + 1
           key == CASE i = 3 -> "docs" [] i = 6 -> "dataset_doc" [] i = 8 -> "perf"
                    [] OTHER -> "none"
       IN /\ m' = (ScoreKeys[i] :> timed_wrapper(FnNames[i], RawCall(i, ctx), dur[i], rng)) @@ m
          /\ now' = now + dur[i]
          /\ pc' = IF i = NumMetrics THEN "aggregate" ELSE "metric"
          /\ ctx' = IF key = "none" \/ key \in DOMAIN ctx THEN ctx
                    ELSE With(ctx, key, EmptyMap)
    /\ rng' = NextRng(rng)
    /\ UNCHANGED <<t_start, dur, elapsed_ms, result, first, calls>>
    /\ UNCHANGED <<mainvars, fnvars>>

\* the next of the eight metric calls: the decorated function computes its
\* score, draws its simulated latency and returns the pair
CallMetric ==
    /\ pc = "metric"
    /\ LET i == Cardinality(DOMAIN m) + 1
       IN /\ m' = (ScoreKeys[i] :> timed_wrapper(FnNames[i], RawCall(i, ctx), dur[i], rng)) @@ m
          /\ now' = now + dur[i]
          /\ pc' = IF i = NumMetrics THEN "aggregate" ELSE "metric"
    /\ rng' = NextRng(rng)
    /\ UNCHANGED <<ctx, t_start, dur, elapsed_ms, result, first, calls>>
    /\ UNCHANGED <<mainvars, fnvars>>

\* the rest of compute_all_scores: scores, latencies, size_obj, net, the elapsed
\* time and the result record, which the caller receives
Aggregate ==
    /\ pc = "aggregate"
    /\ now' = now + dur[NumMetrics + 1]
    /\ elapsed_ms' = (now' - t_start) \div TicksPerMs
    /\ result' = ResultRecord(ctx, m, elapsed_ms')
    /\ first' = IF calls = 0 THEN result' ELSE first
    /\ calls' = calls + 1
    /\ pc' = "done"
    /\ UNCHANGED <<ctx, rng, t_start, dur, m>>
    /\ UNCHANGED <<mainvars, fnvars>>

Next == Start \/ CallMetric \/ Aggregate

Spec == Init /\ [][Next]_vars

----------------------------------------------------------------------------
(* One run of main (acmecli/main.py): the URLs and what looking them up does *)

\* "huggingface.co"
HF ==
    <<"h", "u", "g", "g", "i", "n", "g", "f", "a", "c", "e", ".", "c", "o">>
\* "huggingface.co/datasets"
HF_DATASETS ==
    <<"h", "u", "g", "g", "i", "n", "g", "f", "a", "c", "e", ".", "c", "o", "/", "d",
      "a", "t", "a", "s", "e", "t", "s">>
\* "https://huggingface.co/gpt2"
U_GPT2 ==
    <<"h", "t", "t", "p", "s", ":", "/", "/", "h", "u", "g", "g", "i", "n", "g", "f",
      "a", "c", "e", ".", "c", "o", "/", "g", "p", "t", "2">>
\* "https://HuggingFace.co/Bert"
U_BERT ==
    <<"h", "t", "t", "p", "s", ":", "/", "/", "H", "u", "g", "g", "i", "n", "g", "F",
      "a", "c", "e", ".", "c", "o", "/", "B", "e", "r", "t">>
\* "https://huggingface.co/missing"
U_MISSING ==
    <<"h", "t", "t", "p", "s", ":", "/", "/", "h", "u", "g", "g", "i", "n", "g", "f",
      "a", "c", "e", ".", "c", "o", "/", "m", "i", "s", "s", "i", "n", "g">>
\* "https://huggingface.co/broken"
U_BROKEN ==
    <<"h", "t", "t", "p", "s", ":", "/", "/", "h", "u", "g", "g", "i", "n", "g", "f",
      "a", "c", "e", ".", "c", "o", "/", "b", "r", "o", "k", "e", "n">>
\* "https://huggingface.co/datasets/squad"
U_SQUAD ==
    <<"h", "t", "t", "p", "s", ":", "/", "/", "h", "u", "g", "g", "i", "n", "g", "f",
      "a", "c", "e", ".", "c", "o", "/", "d", "a", "t", "a", "s", "e", "t", "s", "/",
      "s", "q", "u", "a", "d">>
\* "https://github.com/user/repo"
U_REPO ==
    <<"h", "t", "t", "p", "s", ":", "/", "/", "g", "i", "t", "h", "u", "b", ".", "c",
      "o", "m", "/", "u", "s", "e", "r", "/", "r", "e", "p", "o">>

\* classify without url.lower()
classify_case_sensitive(url) ==
    IF Contains(url, HF_DATASETS) THEN "DATASET"
    ELSE IF Contains(url, HF) THEN "MODEL"
    ELSE "CODE"

\* classify of acmecli/urls.py
classify(url) ==
    LET u == Lower(url)
    IN IF Contains(u, HF_DATASETS) THEN "DATASET"
       ELSE IF Contains(u, HF) THEN "MODEL"
       ELSE "CODE"

\* what build_ctx_from_url(url) raises in this run's environment: nothing, a
\* ModelLookupError, or another exception
build_ctx_raises(url) ==
    CASE url = U_MISSING -> "ModelLookupError"
      [] url = U_BROKEN -> "Exception"
      [] OTHER -> ""

\* the context build_ctx_from_url(url) returns when it returns
build_ctx_from_url(url) == IF url = U_GPT2 THEN GoodCtx ELSE FallbackCtx

\* the generator's state after n draws
RECURSIVE RngAfter(_, _)
RngAfter(r, n) == IF n = 0 THEN r ELSE RngAfter(NextRng(r), n - 1)

\* the pairs the eight metric calls of one compute_all_scores(c) return when the
\* first of them finds the generator in state r and none takes a millisecond
MetricsDrawn(c, r) ==
    [k \in {ScoreKeys[i] : i \in 1..NumMetrics} |->
        LET i == CHOOSE j \in 1..NumMetrics : ScoreKeys[j] = k
        IN timed_wrapper(FnNames[i], RawCall(i, c), 0, RngAfter(r, i - 1))]

\* the record process_model(url) returns: {"name": url, "category": "MODEL", **fields},
\* fields being compute_all_scores(build_ctx_from_url(url)) with the generator
\* found in state r
process_model_at(url, r) ==
    LET c == build_ctx_from_url(url)
    IN [name |-> url, category |-> "MODEL"] @@ ResultRecord(c, MetricsDrawn(c, r), 0)

\* process_model_at, tabulated
ProcessModelTable ==
    [url \in {U_GPT2, U_BERT}, r \in 0..(RngMod - 1) |-> process_model_at(url, r)]

process_model(url, r) == ProcessModelTable[url, r]

----------------------------------------------------------------------------
(* One run of main: the main thread and the workers of its thread pool *)

\* the URL file holds at most MaxUrls URLs
MaxUrls == 3

\* the URLs of a URL file: two models that score, one whose lookup fails, one
\* whose processing fails, a dataset and a code repository
UrlPool == {U_GPT2, U_BERT, U_MISSING, U_BROKEN, U_SQUAD, U_REPO}
UrlFiles == UNION {[1..n -> UrlPool] : n \in 0..MaxUrls}

\* the command lines: no URL file, one that cannot be read, or a readable one
\* with any choice of --summary, --fail-fast and --error-file (a path that can
\* be appended to, or one that cannot)
ArgSets ==
    {[url_file |-> f, summary |-> FALSE, fail_fast |-> FALSE, error_file |-> ""] :
        f \in {"", "missing.txt"}}
    \cup {[url_file |-> "urls.txt", summary |-> su, fail_fast |-> ff, error_file |-> ef] :
            su \in BOOLEAN, ff \in BOOLEAN, ef \in {"", "errors.ndjson", "readonly/errors.ndjson"}}

\* whether open(path, "a") of _write_error_line succeeds
Writable(path) == path = "errors.ndjson"

\* no call of compute_all_scores is followed step by step
NoCall ==
    /\ ctx = EmptyMap
    /\ pc = "none"
    /\ now = 0
    /\ t_start = 0
    /\ dur = [i \in 1..(NumMetrics + 1) |-> 0]
    /\ m = EmptyMap
    /\ elapsed_ms = 0
    /\ result = NoResult
    /\ first = NoResult
    /\ calls = 0

MainInit ==
    /\ NoCall
    /\ NoFn
    /\ rng = 0
    /\ args \in ArgSets
    /\ urls \in IF args.url_file = "urls.txt" THEN UrlFiles ELSE {<<>>}
    /\ threads \in IF args.url_file = "urls.txt" THEN BOOLEAN ELSE {TRUE}
    /\ mpc = "start"
    /\ models = <<>>
    /\ invalid = <<>>
    /\ fut = <<>>
    /\ handled = {}
    /\ idx = 0
    /\ stdout = <<>>
    /\ results = <<>>
    /\ failures = <<>>
    /\ error_lines = <<>>
    /\ exit_status = -1

IsModel(u) == classify(u) = "MODEL"
NotModel(u) == classify(u) # "MODEL"

\* a future of the pool
Pending == [state |-> "pending", exc |-> "", rec |-> EmptyMap]

\* raise SystemExit(status), or the interpreter ending on an uncaught exception
Exit(status) ==
    /\ mpc' = "exited"
    /\ exit_status' = status

\* main up to the thread pool: the usage checks, reading the URL file,
\* classifying the URLs, writing the classification errors and submitting one
\* future per model URL
Setup ==
    /\ mpc = "start"
    /\ IF args.url_file = "" \/ args.url_file = "missing.txt" \/ urls = <<>>
       THEN /\ Exit(1)
            /\ UNCHANGED <<models, invalid, fut, idx, error_lines>>
       ELSE LET ms == SelectSeq(urls, IsModel)
                others == SelectSeq(urls, NotModel)
                inv == [i \in 1..Len(others) |-> <<others[i], classify(others[i])>>]
                lines == [i \in 1..Len(inv) |-> <<inv[i][1], "classify">>]
            IN /\ models' = ms
               /\ invalid' = inv
               /\ IF args.error_file # "" /\ inv # <<>> /\ ~Writable(args.error_file)
                  THEN /\ Exit(1)
                       /\ UNCHANGED <<fut, idx, error_lines>>
                  ELSE /\ error_lines' = IF args.error_file # "" THEN lines ELSE error_lines
                       /\ IF ms = <<>>
                          THEN Exit(1) /\ UNCHANGED <<fut, idx>>
                          ELSE IF threads
                          THEN /\ fut' = [i \in 1..Len(ms) |-> Pending]
                               /\ mpc' = "loop"
                               /\ UNCHANGED <<idx, exit_status>>
                          ELSE /\ mpc' = "fallback"
                               /\ idx' = 1
                               /\ UNCHANGED <<fut, exit_status>>
    /\ UNCHANGED <<args, urls, threads, handled, stdout, results, failures>>
    /\ UNCHANGED <<rng, callvars, fnvars>>

PoolAlive == mpc \in {"loop", "join", "abort"}

\* a worker starts process_model(models[i]): build_ctx_from_url returns the
\* context or raises
Build(i) ==
    /\ PoolAlive
    /\ fut[i].state = "pending"
    /\ LET e == build_ctx_raises(models[i])
       IN fut' = [fut EXCEPT ![i] =
                    IF e = "" THEN [state |-> "built", exc |-> "", rec |-> EmptyMap]
                    ELSE [state |-> "finished", exc |-> e, rec |-> EmptyMap]]
    /\ UNCHANGED <<args, urls, threads, mpc, models, invalid, handled, idx, stdout,
                   results, failures, error_lines, exit_status>>
    /\ UNCHANGED <<rng, callvars, fnvars>>

\* the worker goes on: compute_all_scores(ctx), whose eight metric calls draw
\* from the process's generator, and the record is the future's result
Score(i) ==
    /\ PoolAlive
    /\ fut[i].state = "built"
    /\ fut' = [fut EXCEPT ![i] =
                [state |-> "finished", exc |-> "",
                 rec |-> process_model(models[i], rng)]]
    /\ rng' = RngAfter(rng, NumMetrics)
    /\ UNCHANGED <<args, urls, threads, mpc, models, invalid, handled, idx, stdout,
                   results, failures, error_lines, exit_status>>
    /\ UNCHANGED <<callvars, fnvars>>

\* the kind record_failure is given for an exception of process_model
FailureKind(exc) == IF exc = "ModelLookupError" THEN "lookup" ELSE "processing"

\* whether record_failure raises (OSError of _write_error_line)
RecordFailureRaises == args.error_file # "" /\ ~Writable(args.error_file)

\* record_failure(u, why, kind): failures.append, then the line of the error file
RecordFailure(u, kind) ==
    /\ failures' = Append(failures, <<u, kind>>)
    /\ error_lines' = IF args.error_file # "" /\ Writable(args.error_file)
                      THEN Append(error_lines, <<u, kind>>)
                      ELSE error_lines

\* write_ndjson_line(rec), and results.append(rec) under --summary
WriteRecord(rec) ==
    /\ stdout' = Append(stdout, rec)
    /\ results' = IF args.summary THEN Append(results, rec) ELSE results

\* one turn of the loop over as_completed: a finished future that has not been
\* yielded yet is yielded; its record is written, or its exception recorded
\* (and under --fail-fast the futures not yet started are cancelled and the
\* loop is left).  An exception of record_failure leaves the pool's block.
Handle(i) ==
    /\ mpc = "loop"
    /\ i \notin handled
    /\ fut[i].state = "finished"
    /\ handled' = handled \cup {i}
    /\ IF fut[i].exc = ""
       THEN /\ WriteRecord(fut[i].rec)
            /\ mpc' = IF handled' = DOMAIN fut THEN "finish" ELSE "loop"
            /\ UNCHANGED <<fut, failures, error_lines>>
       ELSE /\ RecordFailure(models[i], FailureKind(fut[i].exc))
            /\ UNCHANGED <<stdout, results>>
            /\ IF RecordFailureRaises
               THEN mpc' = "abort" /\ UNCHANGED fut
               ELSE IF args.fail_fast
               THEN /\ fut' = [j \in DOMAIN fut |->
                                IF fut[j].state = "pending"
                                THEN [fut[j] EXCEPT !.state = "cancelled"] ELSE fut[j]]
                    /\ mpc' = "join"
               ELSE /\ mpc' = IF handled' = DOMAIN fut THEN "finish" ELSE "loop"
                    /\ UNCHANGED fut
    /\ UNCHANGED <<args, urls, threads, models, invalid, idx, exit_status>>
    /\ UNCHANGED <<rng, callvars, fnvars>>

Settled == \A j \in DOMAIN fut : fut[j].state \in {"finished", "cancelled"}

\* leaving the pool's block after the break of --fail-fast: shutdown waits for
\* the futures that run
Join ==
    /\ mpc = "join"
    /\ Settled
    /\ mpc' = "finish"
    /\ UNCHANGED <<args, urls, threads, models, invalid, fut, handled, idx, stdout,
                   results, failures, error_lines, exit_status>>
    /\ UNCHANGED <<rng, callvars, fnvars>>

\* an exception leaves the pool's block (shutdown waits for the futures) and is
\* caught: "parallel execution unavailable", the sequential loop starts
Fallback ==
    /\ mpc = "abort"
    /\ Settled
    /\ mpc' = "fallback"
    /\ idx' = 1
    /\ UNCHANGED <<args, urls, threads, models, invalid, fut, handled, stdout,
                   results, failures, error_lines, exit_status>>
    /\ UNCHANGED <<rng, callvars, fnvars>>

\* one turn of the sequential loop: process_model(models[idx]) in the main
\* thread.  An exception of record_failure is caught by nothing.
Sequential ==
    /\ mpc = "fallback"
    /\ idx \in 1..Len(models)
    /\ LET u == models[idx]
           e == build_ctx_raises(u)
           last == idx = Len(models)
       IN IF e = ""
          THEN /\ WriteRecord(process_model(u, rng))
               /\ rng' = RngAfter(rng, NumMetrics)
               /\ idx' = idx + 1
               /\ mpc' = IF last THEN "finish" ELSE "fallback"
               /\ UNCHANGED <<failures, error_lines, exit_status>>
          ELSE /\ RecordFailure(u, FailureKind(e))
               /\ UNCHANGED <<stdout, results, rng>>
               /\ IF RecordFailureRaises
                  THEN Exit(1) /\ UNCHANGED idx
                  ELSE /\ idx' = idx + 1
                       /\ mpc' = IF last \/ args.fail_fast THEN "finish" ELSE "fallback"
                       /\ UNCHANGED exit_status
    /\ UNCHANGED <<args, urls, threads, models, invalid, fut, handled>>
    /\ UNCHANGED <<callvars, fnvars>>

\* the exit policy without `or failures`
Finish_invalid_only ==
    /\ mpc = "finish"
    /\ Exit(IF invalid # <<>> THEN 1 ELSE 0)
    /\ UNCHANGED <<args, urls, threads, models, invalid, fut, handled, idx, stdout,
                   results, failures, error_lines>>
    /\ UNCHANGED <<rng, callvars, fnvars>>

\* the final reporting and the exit policy
Finish ==
    /\ mpc = "finish"
    /\ Exit(IF invalid # <<>> \/ failures # <<>> THEN 1 ELSE 0)
    /\ UNCHANGED <<args, urls, threads, models, invalid, fut, handled, idx, stdout,
                   results, failures, error_lines>>
    /\ UNCHANGED <<rng, callvars, fnvars>>

MainNext ==
    \/ Setup
    \/ \E i \in DOMAIN fut : Build(i)
    \/ \E i \in DOMAIN fut : Score(i)
    \/ \E i \in DOMAIN fut : Handle(i)
    \/ Join
    \/ Fallback
    \/ Sequential
    \/ Finish

SpecMain == MainInit /\ [][MainNext]_vars

----------------------------------------------------------------------------
(* The metric functions called on their own, as the unit tests call them *)

\* a float keeps MantBits significant bits
MantBits == 8
\* contributor counts are -2..MaxContrib
MaxContrib == 70

RECURSIVE Pow2(_)
Pow2(k) == IF k = 0 THEN 1 ELSE 2 * Pow2(k - 1)

\* 2^MantBits and 2^(MantBits - 1): a significand lies between the latter and
\* the former
MantTop == Pow2(MantBits)
MantLow == Pow2(MantBits - 1)

\* n/d > 0 scaled by 2^-e, rounded to the nearest float of MantBits significant
\* bits, ties to the even significand
RECURSIVE RoundPos(_, _, _)
RoundPos(n, d, e) ==
    IF n \div d >= MantTop THEN
        IF n % 2 = 0 THEN RoundPos(n \div 2, d, e + 1) ELSE RoundPos(n, 2 * d, e + 1)
    ELSE IF n \div d < MantLow THEN
        IF d % 2 = 0 THEN RoundPos(n, d \div 2, e - 1) ELSE RoundPos(2 * n, d, e - 1)
    ELSE LET q == n \div d
             r == n % d
             mant == IF 2 * r > d \/ (2 * r = d /\ q % 2 = 1) THEN q + 1 ELSE q
         IN IF e >= 0 THEN Q(mant * Pow2(e), 1) ELSE Q(mant, Pow2(-e))

\* the float nearest to the real number x: what a float operation returns
\* whose exact result is x
Fl(x) ==
    IF x.n = 0 THEN Zero
    ELSE IF x.n < 0 THEN QNeg(RoundPos(-x.n, x.d, 0))
    ELSE RoundPos(x.n, x.d, 0)

\* a + b and a / b of floats
FAdd(a, b) == Fl(QAdd(a, b))
FDiv(a, b) == Fl(QDiv(a, b))

\* sum(vals) from the start value acc: left to right, each addition rounded
RECURSIVE FSum(_, _)
FSum(acc, vals) ==
    IF vals = <<>> THEN acc ELSE FSum(FAdd(acc, Head(vals)), Tail(vals))

\* rampup_score counting readme in place of reproducibility
rampup_score_float_readme(readme, quickstart, tutorials, api_docs, reproducibility) ==
    LET vals == <<readme, quickstart, tutorials, api_docs, readme>>
    IN FDiv(FSum(Zero, vals), F(5))

\* rampup_score with its float operations rounded
rampup_score_float(readme, quickstart, tutorials, api_docs, reproducibility) ==
    LET vals == <<readme, quickstart, tutorials, api_docs, reproducibility>>
    IN FDiv(FSum(Zero, vals), F(5))

\* dataset_quality_score with its float operations rounded
dataset_quality_score_float(source, license_, splits, ethics) ==
    FDiv(FAdd(FAdd(FAdd(source, license_), splits), ethics), F(4))

\* bus_factor_score returning the share of k: k / (c + k)
bus_factor_score_float_falling(contributors, k) ==
    LET c == Max(0, contributors)
    IN IF c + k > 0 THEN FDiv(F(k), F(c + k)) ELSE Zero

\* bus_factor_score with its division rounded
bus_factor_score_float(contributors, k) ==
    LET c == Max(0, contributors)
    IN IF c + k > 0 THEN FDiv(F(c), F(c + k)) ELSE Zero

\* thresholds (L, U) of size_score: the defaults, U = L, U < L and another pair
Thresholds == {<<SIZE_L, SIZE_U>>, <<3, 3>>, <<5, 3>>, <<2, 6>>}
SizeInputs == (-1)..12

TXT_EMPTY == <<>>
TXT_SPACE == <<" ">>
TXT_LGPL3 == <<"L", "G", "P", "L", "-", "3", ".", "0">>
TXT_LGPL_V == <<"x", " ", "L", "G", "P", "L", " ", "V", "2", ".", "1", " ", "y">>
TXT_GNU ==
    <<"G", "N", "U", " ", "L", "e", "s", "s", "e", "r", " ", "G", "e", "n", "e",
      "r", "a", "l", " ", "P", "u", "b", "l", "i", "c", " ", "L", "i", "c", "e",
      "n", "s", "e", " ", "v", "2", ".", "1">>
LicenseTexts == {TXT_EMPTY, TXT_SPACE, TXT_LGPL, TXT_MIT, TXT_LGPL3, TXT_LGPL_V, TXT_GNU}

\* floats of [0, 1]: 0, 0.1, 0.5 and 1
UnitFloats == {Zero, Fl(Q(1, 10)), Half, One}

ContribInputs == (-2)..MaxContrib
\* saturation constants k: the default, 1, 0 and a negative one
BusKs == {BUS_K, 1, 0, -2}

ErrorCounts == {-50, 0, 5, 10, 20, 25, 50, 10000}
\* ceilings (emax, tmax): the defaults, and one or both not positive
Ceilings == {<<EMAX, TMAX>>, <<0, TMAX>>, <<EMAX, -1>>, <<0, 0>>}

SizeCalls ==
    {[fn |-> "size_score", total_bytes |-> tb, L |-> lu[1], U |-> lu[2]] :
        tb \in SizeInputs, lu \in Thresholds}
LicenseCalls == {[fn |-> "license_score", license_text |-> t] : t \in LicenseTexts}
RampupCalls ==
    {[fn |-> "rampup_score", vals |-> v] : v \in [1..5 -> UnitFloats]}
BusFactorCalls ==
    {[fn |-> "bus_factor_score", contributors |-> c, k |-> k] :
        c \in ContribInputs, k \in BusKs}
DatasetAndCodeCalls ==
    {[fn |-> "dataset_and_code_score", dataset_present |-> d, code_present |-> c] :
        d \in BOOLEAN, c \in BOOLEAN}
DatasetQualityCalls ==
    {[fn |-> "dataset_quality_score", vals |-> v] : v \in [1..4 -> UnitFloats]}
CodeQualityCalls ==
    {[fn |-> "code_quality_score", flake8_errors |-> e, isort_sorted |-> s,
      mypy_errors |-> t, emax |-> c[1], tmax |-> c[2]] :
        e \in ErrorCounts, s \in BOOLEAN, t \in ErrorCounts, c \in Ceilings}
PerfClaimsCalls ==
    {[fn |-> "perf_claims_score", benchmarks_present |-> b, citations_present |-> c] :
        b \in BOOLEAN, c \in BOOLEAN}
\* arguments of clamp01: below 0, above 1, the two ends and values between
ClampInputs == {F(-1), Q(-1, 10), Zero, Q(1, 3), Half, One, Q(11, 10), F(2)}
ClampCalls == {[fn |-> "clamp01", x |-> x] : x \in ClampInputs}

----------------------------------------------------------------------------
(* The context builder of acmecli/metrics/hf_api.py.  A JSON number field of  *)
(* a response is [type, v]: an int v, or a string or null (v unused); a text  *)
(* field is [type, text].  The responses hold no cardData.                    *)

JsonInt(v) == [type |-> "int", v |-> v]
\* a string ("str") or null where a number is expected
JsonNotInt(t) == [type |-> t, v |-> 0]
JsonStr(text) == [type |-> "str", text |-> text]

\* "huggingface.co/"
HF_SLASH == HF \o <<"/">>

\* url.rstrip("/")
RECURSIVE RStripSlash(_)
RStripSlash(url) ==
    IF url # <<>> /\ url[Len(url)] = "/" THEN RStripSlash(SubSeq(url, 1, Len(url) - 1))
    ELSE url

\* the positions of "/" in text
SlashesOf(text) == {i \in 1..Len(text) : text[i] = "/"}

\* extract_model_id(url): the text after the third "/", or a ValueError
extract_model_id(url) ==
    LET stripped == RStripSlash(url)
        slashes == SlashesOf(stripped)
    IN IF Contains(url, HF_SLASH) /\ Cardinality(slashes) >= 3
       THEN LET third == CHOOSE i \in slashes :
                            Cardinality({j \in slashes : j < i}) = 2
            IN [raises |-> FALSE, id |-> SubSeq(stripped, third + 1, Len(stripped))]
       ELSE [raises |-> TRUE, id |-> <<>>]

\* fetch_model_info and fetch_model_files: the JSON body when the request
\* succeeds with a JSON object, {} when it fails or yields anything else
fetch_model_info(response) ==
    IF response.kind = "object" THEN response.body ELSE EmptyMap
fetch_model_files(response) ==
    IF response.kind = "object" THEN [kind |-> "dict", body |-> response.body]
    ELSE [kind |-> "dict", body |-> EmptyMap]

\* calculate_model_size(files_data): entries are [size |-> n], or <<>> for an
\* entry without an integer size
RECURSIVE calculate_model_size(_)
calculate_model_size(files_data) ==
    IF files_data = <<>> THEN 0
    ELSE (IF "size" \in DOMAIN Head(files_data) THEN Head(files_data).size ELSE 0)
         + calculate_model_size(Tail(files_data))

get_model_downloads(model_info) ==
    LET downloads == Get(model_info, "downloads", JsonInt(0))
    IN IF downloads.type = "int" THEN downloads.v ELSE 0

get_model_likes(model_info) ==
    LET likes == Get(model_info, "likes", JsonInt(0))
    IN IF likes.type = "int" THEN likes.v ELSE 0

\* the tags a test of get_model_license or estimate_dataset_presence accepts
TagsWith(model_info, words) ==
    LET tags == Get(model_info, "tags", <<>>)
    IN {i \in 1..Len(tags) : \E w \in words : Contains(Lower(tags[i]), w)}

get_model_license(model_info) ==
    LET license_direct == Get(model_info, "license", JsonStr(<<>>))
        hits == TagsWith(model_info, {<<"l", "i", "c", "e", "n", "s", "e", ":">>,
                                      <<"l", "g", "p", "l">>})
    IN IF license_direct.type = "str" /\ license_direct.text # <<>>
       THEN license_direct.text
       ELSE IF hits # {}
       THEN model_info.tags[CHOOSE i \in hits : \A j \in hits : i <= j]
       ELSE <<>>

\* get_days_since_update: `days` is what the clock gives for a date that parses
get_days_since_update(model_info, days) ==
    IF "lastModified" \notin DOMAIN model_info THEN 365
    ELSE IF model_info.lastModified.parses THEN days
    ELSE 365

\* model_info.get(key, 0) where the estimate_* functions do arithmetic on it
NumberOf(model_info, key) == Get(model_info, key, JsonInt(0)).v
\* an estimate_* function raises TypeError: downloads or likes is no number
EstimateRaises(model_info) ==
    \E key \in {"downloads", "likes"} : Get(model_info, key, JsonInt(0)).type # "int"

\* int(x) of a float x >= 0
IntOf(x) == x.n \div x.d

estimate_docs_quality(model_info) ==
    LET downloads == NumberOf(model_info, "downloads")
        likes == NumberOf(model_info, "likes")
        popularity_score ==
            QMin(One, QAdd(QMul(Q(downloads, 10000), Q(3, 10)),
                           QMul(Q(likes, 100), Q(7, 10))))
    IN [readme |-> QMin(One, QAdd(Q(3, 10), QMul(popularity_score, Q(7, 10)))),
        quickstart |-> QMul(popularity_score, Q(8, 10)),
        tutorials |-> QMul(popularity_score, Q(6, 10)),
        api_docs |-> QMul(popularity_score, Q(7, 10)),
        reproducibility |-> QMul(popularity_score, Q(5, 10))]

estimate_contributors(model_info) ==
    LET downloads == NumberOf(model_info, "downloads")
    IN IF downloads > 100000 THEN 8
       ELSE IF downloads > 10000 THEN 5
       ELSE IF downloads > 1000 THEN 3
       ELSE 1

estimate_dataset_presence(model_info) ==
    \/ TagsWith(model_info, {<<"d", "a", "t", "a", "s", "e", "t">>, <<"d", "a", "t", "a">>,
                             <<"t", "r", "a", "i", "n", "i", "n", "g">>}) # {}
    \/ NumberOf(model_info, "downloads") > 1000

estimate_code_presence(model_info) == TRUE

\* min(1.0, downloads / 10000)
Popularity(model_info) == QMin(One, Q(NumberOf(model_info, "downloads"), 10000))

estimate_dataset_docs(model_info) ==
    LET popularity == Popularity(model_info)
    IN [source |-> QMul(popularity, Q(8, 10)),
        license |-> QMul(popularity, Q(9, 10)),
        splits |-> QMul(popularity, Q(7, 10)),
        ethics |-> QMul(popularity, Q(6, 10))]

estimate_code_quality(model_info) ==
    LET popularity == Popularity(model_info)
    IN [flake8_errors |-> Max(0, IntOf(QMul(F(15), QSub(One, popularity)))),
        isort_sorted |-> QLt(Q(3, 10), popularity),
        mypy_errors |-> Max(0, IntOf(QMul(F(10), QSub(One, popularity))))]

\* without cardData, str(card_data) is "{}" and names no benchmark or citation
estimate_performance_claims(model_info) ==
    [benchmarks |-> FALSE,
     citations |-> NumberOf(model_info, "downloads") > 5000]

\* get_fallback_context(), every key
get_fallback_context ==
    FallbackCtx @@ [downloads |-> 0, likes |-> 0, days_since_update |-> 365]

\* the context build_context_from_api builds from model_info and files_data
BuiltContext(model_info, files_data, days) ==
    [total_bytes |-> IF files_data.kind = "list" THEN calculate_model_size(files_data.body)
                     ELSE 1,
     license_text |-> get_model_license(model_info),
     downloads |-> get_model_downloads(model_info),
     likes |-> get_model_likes(model_info),
     days_since_update |-> get_days_since_update(model_info, days),
     docs |-> estimate_docs_quality(model_info),
     contributors |-> estimate_contributors(model_info),
     dataset_present |-> estimate_dataset_presence(model_info),
     code_present |-> estimate_code_presence(model_info),
     dataset_doc |-> estimate_dataset_docs(model_info),
     flake8_errors |-> estimate_code_quality(model_info).flake8_errors,
     isort_sorted |-> estimate_code_quality(model_info).isort_sorted,
     mypy_errors |-> estimate_code_quality(model_info).mypy_errors,
     perf |-> estimate_performance_claims(model_info)]

\* build_context_from_api returning what it has built when an estimate raises
build_context_from_api_partial(url, info, files, days) ==
    LET model_id == extract_model_id(url)
        model_info == fetch_model_info(info)
        files_data == fetch_model_files(files)
    IN IF model_id.raises THEN get_fallback_context
       ELSE IF DOMAIN model_info = {} THEN get_fallback_context
       ELSE IF EstimateRaises(model_info)
       THEN [total_bytes |-> 1,
             license_text |-> get_model_license(model_info),
             downloads |-> get_model_downloads(model_info),
             likes |-> get_model_likes(model_info),
             days_since_update |-> get_days_since_update(model_info, days)]
       ELSE BuiltContext(model_info, files_data, days)

\* build_context_from_api(url), the two requests being answered by info and
\* files: every exception of the body is caught and answered by the fallback
build_context_from_api(url, info, files, days) ==
    LET model_id == extract_model_id(url)
        model_info == fetch_model_info(info)
        files_data == fetch_model_files(files)
    IN IF model_id.raises THEN get_fallback_context
       ELSE IF DOMAIN model_info = {} THEN get_fallback_context
       ELSE IF EstimateRaises(model_info) THEN get_fallback_context
       ELSE BuiltContext(model_info, files_data, days)

\* the bodies of model-info responses that are JSON objects: any of the fields
\* may be absent
OptionalField(key, values) == {EmptyMap} \cup {key :> v : v \in values}
InfoBodies ==
    {d @@ l @@ lic @@ t @@ lm :
        d \in OptionalField("downloads", {JsonInt(0), JsonInt(1000), JsonInt(20000),
                                          JsonInt(200000), JsonNotInt("str")}),
        l \in OptionalField("likes", {JsonInt(50), JsonNotInt("null")}),
        lic \in OptionalField("license", {JsonStr(TXT_MIT)}),
        t \in OptionalField("tags", {<< <<"d", "a", "t", "a", "s", "e", "t">> >>,
                                     << <<"L", "G", "P", "L", "-", "2", ".", "1">> >>}),
        lm \in OptionalField("lastModified", {[parses |-> TRUE], [parses |-> FALSE]})}

\* what the hub answers to the model-info request: a failure of the request, a
\* JSON value that is no object, or a JSON object
InfoResponses ==
    {[kind |-> "error", body |-> EmptyMap], [kind |-> "array", body |-> EmptyMap]}
    \cup {[kind |-> "object", body |-> b] : b \in InfoBodies}

\* what the hub answers to the file-listing request: a failure, a JSON object,
\* or the listing, a JSON array of entries with sizes in units of 50,000,000 bytes
FileListings ==
    {<<>>,
     <<[size |-> 2], [size |-> 1]>>,
     <<[size |-> 4], [path |-> 0], [size |-> 2]>>}
FilesResponses ==
    {[kind |-> "error", body |-> <<>>], [kind |-> "object", body |-> <<>>]}
    \cup {[kind |-> "array", body |-> l] : l \in FileListings}

\* days since lastModified, by the clock
DaysSince == {0, 30}

BuilderUrls == {U_GPT2, U_BERT, U_REPO}

BuildContextCalls ==
    {[fn |-> "build_context_from_api", url |-> u, info |-> i, files |-> f, days |-> d] :
        u \in BuilderUrls, i \in InfoResponses, f \in FilesResponses, d \in DaysSince}

\* a test calls one function once
----------------------------------------------------------------------------
(* The LLM enhancement of ramp_up_time (acmecli/llm_analysis.py) *)

\* the words that show installation
WORDS_INSTALLATION ==
    {<<"i", "n", "s", "t", "a", "l", "l">>,
     <<"p", "i", "p">>,
     <<"c", "o", "n", "d", "a">>,
     <<"s", "e", "t", "u", "p">>}
\* the words that show usage
WORDS_USAGE ==
    {<<"u", "s", "a", "g", "e">>,
     <<"e", "x", "a", "m", "p", "l", "e">>,
     <<"h", "o", "w", " ", "t", "o">>,
     <<"g", "e", "t", "t", "i", "n", "g", " ", "s", "t", "a", "r", "t", "e", "d">>}
\* the words that show api docs
WORDS_API_DOCS ==
    {<<"a", "p", "i">>,
     <<"r", "e", "f", "e", "r", "e", "n", "c", "e">>,
     <<"d", "o", "c", "u", "m", "e", "n", "t", "a", "t", "i", "o", "n">>,
     <<"d", "o", "c", "s">>}
\* the words that show examples
WORDS_EXAMPLES ==
    {<<"e", "x", "a", "m", "p", "l", "e">>,
     <<"s", "a", "m", "p", "l", "e">>,
     <<"d", "e", "m", "o">>,
     <<"t", "u", "t", "o", "r", "i", "a", "l">>}
\* the backquote character
BQ == "backquote"
\* the fence of a code block: three backquotes
FENCE ==
    <<BQ, BQ, BQ>>
\* "Test README content."
R_TEST ==
    <<"T", "e", "s", "t", " ", "R", "E", "A", "D", "M", "E", " ", "c", "o", "n", "t",
      "e", "n", "t", ".">>
\* "Pip install acme"
R_PIP ==
    <<"P", "i", "p", " ", "i", "n", "s", "t", "a", "l", "l", " ", "a", "c", "m", "e">>
\* "Demo: " and two fenced code blocks, run and stop
R_DEMO ==
    <<"D", "e", "m", "o", ":", " ", BQ, BQ, BQ, "r", "u", "n", BQ, BQ, BQ, " ",
      BQ, BQ, BQ, "s", "t", "o", "p", BQ, BQ, BQ>>
\* "Setup, usage, API docs, example " and one fenced code block, x
R_FULL ==
    <<"S", "e", "t", "u", "p", ",", " ", "u", "s", "a", "g", "e", ",", " ", "A", "P",
      "I", " ", "d", "o", "c", "s", ",", " ", "e", "x", "a", "m", "p", "l", "e", " ",
      BQ, BQ, BQ, "x", BQ, BQ, BQ>>

\* any(word in text for word in words)
AnyWord(text, words) == \E w \in words : Contains(text, w)

\* text.count(pat): the occurrences of pat in text that do not overlap, from the left
RECURSIVE Count(_, _)
Count(text, pat) ==
    IF Len(text) < Len(pat) THEN 0
    ELSE IF SubSeq(text, 1, Len(pat)) = pat
         THEN 1 + Count(SubSeq(text, Len(pat) + 1, Len(text)), pat)
         ELSE Count(Tail(text), pat)

\* _analyze_readme_locally(readme_content, model_name)
analyze_readme_locally(readme_content) ==
    IF readme_content = <<>>
    THEN [documentation_quality |-> Zero,
          ease_of_use |-> Zero,
          examples_present |-> FALSE,
          installation_instructions |-> FALSE,
          usage_examples |-> FALSE]
    ELSE LET content_lower == Lower(readme_content)
             has_installation == AnyWord(content_lower, WORDS_INSTALLATION)
             has_usage == AnyWord(content_lower, WORDS_USAGE)
             has_api_docs == AnyWord(content_lower, WORDS_API_DOCS)
             has_examples == AnyWord(content_lower, WORDS_EXAMPLES)
             code_blocks == Count(readme_content, FENCE)
             quarter(b) == IF b THEN Q(1, 4) ELSE Zero
             quality_score == QAdd(QAdd(quarter(has_installation), quarter(has_usage)),
                                   QAdd(quarter(has_api_docs), quarter(code_blocks >= 2)))
             ease_score == QMin(One, QAdd(QMul(Q(Len(readme_content), 1000), Half),
                                          QMul(quality_score, Half)))
         IN [documentation_quality |-> quality_score,
             ease_of_use |-> ease_score,
             examples_present |-> has_examples,
             installation_instructions |-> has_installation,
             usage_examples |-> has_usage,
             code_blocks_count |-> code_blocks \div 2]

\* _call_openai_api letting the keys of the response stand: local.update(result)
call_openai_api_response_first(readme_content, llm) ==
    IF llm.kind = "object"
    THEN llm.body @@ analyze_readme_locally(readme_content)
    ELSE analyze_readme_locally(readme_content)

\* _call_openai_api(readme_content, model_name), llm being what the attempt to
\* ask the model comes to: no API key, an exception of the import, the client
\* or the request, a reply that is no JSON, a reply that is a JSON array
\* (result.update raises), or a reply that is a JSON object.  The local
\* analysis is laid over the object: result.update(local)
call_openai_api(readme_content, llm) ==
    IF llm.kind = "object"
    THEN analyze_readme_locally(readme_content) @@ llm.body
    ELSE analyze_readme_locally(readme_content)

\* analyze_readme_with_llm(readme_content, model_name)
analyze_readme_with_llm(readme_content, llm) == call_openai_api(readme_content, llm)

\* a value of the analysis is a number (a string raises TypeError in the product)
IsNumber(v) == DOMAIN v = {"n", "d"}

\* enhance_ramp_up_time_with_llm(base_score, readme_content, model_name)
enhance_ramp_up_time_with_llm(base_score, readme_content, llm) ==
    LET analysis == analyze_readme_with_llm(readme_content, llm)
        llm_weight == Q(3, 10)
        base_weight == Q(7, 10)
    IN IF ~IsNumber(analysis.documentation_quality) \/ ~IsNumber(analysis.ease_of_use)
       THEN base_score
       ELSE LET llm_score ==
                    QAdd(QAdd(QMul(analysis.documentation_quality, Q(4, 10)),
                              QMul(analysis.ease_of_use, Q(4, 10))),
                         QMul(IF analysis.examples_present THEN One ELSE Zero, Q(2, 10)))
                enhanced_score == QAdd(QMul(base_weight, base_score),
                                       QMul(llm_weight, llm_score))
            IN QMin(One, enhanced_score)

\* the README texts and the base scores of the calls
Readmes == {<<>>, R_TEST, R_PIP, R_DEMO, R_FULL}
BaseScores == {Zero, Q(6, 10), One, F(2)}
\* the JSON objects a reply holds: none of the three keys, as in the test, or
\* the three keys with any of a few values
LlmBodies ==
    {[ease_of_use_score |-> Q(9, 10)]}
    \cup {[documentation_quality |-> q, ease_of_use |-> e, examples_present |-> x] :
            q \in {Zero, Q(9, 10)}, e \in {Zero, Q(8, 10)}, x \in BOOLEAN}
\* what asking the model comes to
LlmOutcomes ==
    {[kind |-> k] : k \in {"no_key", "no_module", "request_error", "no_json", "array"}}
    \cup {[kind |-> "object", body |-> b] : b \in LlmBodies}
EnhanceCalls ==
    {[fn |-> "enhance_ramp_up_time_with_llm", base_score |-> b, readme_content |-> r,
      llm |-> o] : b \in BaseScores, r \in Readmes, o \in LlmOutcomes}

\* the weighted sum with bus_factor counted twice
NetScore_float_bus_twice(scores) ==
    FSum(Zero, [i \in 1..(NumMetrics + 1) |->
                    LET k == IF i > NumMetrics THEN "bus_factor" ELSE ScoreKeys[i]
                    IN Fl(QMul(scores[k], Fl(DEFAULT_WEIGHTS[k])))])

\* net = sum(scores[k] * DEFAULT_WEIGHTS[k] for k in DEFAULT_WEIGHTS) in floats:
\* the weights are the floats nearest to their decimals, every product and every
\* addition is rounded, and the terms are added in the order of DEFAULT_WEIGHTS
NetScore_float(scores) ==
    FSum(Zero, [i \in 1..NumMetrics |->
                    Fl(QMul(scores[ScoreKeys[i]], Fl(DEFAULT_WEIGHTS[ScoreKeys[i]])))])

\* the dimensions other than bus_factor
OtherKeys == {ScoreKeys[i] : i \in 1..NumMetrics} \ {"bus_factor"}
\* compute_all_scores on a context with `contributors` contributors whose seven
\* other dimensions score 0.0 or 1.0
NetScoreCalls ==
    {[fn |-> "compute_all_scores", contributors |-> c, others |-> o] :
        c \in ContribInputs, o \in [OtherKeys -> {Zero, One}]}

MetricsInit ==
    /\ NoCall
    /\ NoRun
    /\ rng \in 0..MaxSeed
    /\ \/ call \in SizeCalls
       \/ call \in LicenseCalls
       \/ call \in RampupCalls
       \/ call \in BusFactorCalls
       \/ call \in DatasetAndCodeCalls
       \/ call \in DatasetQualityCalls
       \/ call \in CodeQualityCalls
       \/ call \in PerfClaimsCalls
       \/ call \in ClampCalls
       \/ call \in BuildContextCalls
       \/ call \in NetScoreCalls
       \/ call \in EnhanceCalls
    /\ ret = <<>>

\* the decorated function named fn_name returns: wrapper has timed the call of fn,
\* which returned `score`, and drawn its simulated latency
Return(i, score) ==
    /\ ret = <<>>
    /\ \E ticks \in 0..MaxBaseTicks : ret' = timed_wrapper(FnNames[i], score, ticks, rng)
    /\ rng' = NextRng(rng)
    /\ UNCHANGED <<call, callvars, mainvars>>

Call_size_score ==
    /\ call.fn = "size_score"
    /\ Return(1, size_score(call.total_bytes, call.L, call.U))

Call_license_score ==
    /\ call.fn = "license_score"
    /\ Return(2, license_score(call.license_text))

Call_rampup_score ==
    /\ call.fn = "rampup_score"
    /\ Return(3, rampup_score_float(call.vals[1], call.vals[2], call.vals[3],
                                    call.vals[4], call.vals[5]))

Call_bus_factor_score ==
    /\ call.fn = "bus_factor_score"
    /\ Return(4, bus_factor_score_float(call.contributors, call.k))

Call_dataset_and_code_score ==
    /\ call.fn = "dataset_and_code_score"
    /\ Return(5, dataset_and_code_score(call.dataset_present, call.code_present))

Call_dataset_quality_score ==
    /\ call.fn = "dataset_quality_score"
    /\ Return(6, dataset_quality_score_float(call.vals[1], call.vals[2], call.vals[3],
                                             call.vals[4]))

Call_code_quality_score ==
    /\ call.fn = "code_quality_score"
    /\ Return(7, code_quality_score(call.flake8_errors, call.isort_sorted,
                                    call.mypy_errors, call.emax, call.tmax))

Call_perf_claims_score ==
    /\ call.fn = "perf_claims_score"
    /\ Return(8, perf_claims_score(call.benchmarks_present, call.citations_present))

\* clamp01(x) of acmecli/scoring.py, which is not decorated: it returns the
\* score alone
Call_clamp01 ==
    /\ call.fn = "clamp01"
    /\ ret = <<>>
    /\ ret' = <<clamp01(call.x)>>
    /\ UNCHANGED <<rng, call, callvars, mainvars>>

\* build_context_from_api(url) returns a context
Call_build_context_from_api ==
    /\ call.fn = "build_context_from_api"
    /\ ret = <<>>
    /\ ret' = <<build_context_from_api(call.url, call.info, call.files, call.days)>>
    /\ UNCHANGED <<rng, call, callvars, mainvars>>

\* compute_all_scores as far as net_score: the eight scores clamped, their
\* weighted sum clamped, the eight metric calls having drawn from the generator
Call_compute_all_scores ==
    /\ call.fn = "compute_all_scores"
    /\ ret = <<>>
    /\ LET bus == timed_wrapper(FnNames[4], bus_factor_score_float(call.contributors, BUS_K),
                                0, RngAfter(rng, 3))[1]
           scores == [k \in OtherKeys \cup {"bus_factor"} |->
                        clamp01(IF k = "bus_factor" THEN bus ELSE call.others[k])]
       IN ret' = <<clamp01(NetScore_float(scores))>>
    /\ rng' = RngAfter(rng, NumMetrics)
    /\ UNCHANGED <<call, callvars, mainvars>>

Call_enhance_ramp_up_time_with_llm ==
    /\ call.fn = "enhance_ramp_up_time_with_llm"
    /\ ret = <<>>
    /\ ret' = <<enhance_ramp_up_time_with_llm(call.base_score, call.readme_content, call.llm)>>
    /\ UNCHANGED <<rng, call, callvars, mainvars>>

MetricsNext ==
    \/ Call_size_score
    \/ Call_license_score
    \/ Call_rampup_score
    \/ Call_bus_factor_score
    \/ Call_dataset_and_code_score
    \/ Call_dataset_quality_score
    \/ Call_code_quality_score
    \/ Call_perf_claims_score
    \/ Call_clamp01
    \/ Call_build_context_from_api
    \/ Call_compute_all_scores
    \/ Call_enhance_ramp_up_time_with_llm

SpecMetrics == MetricsInit /\ [][MetricsNext]_vars

----------------------------------------------------------------------------
(* Properties *)

ScoreKeySet == {ScoreKeys[i] : i \in 1..NumMetrics}
DeviceKeys == {"raspberry_pi", "jetson_nano", "desktop_pc", "aws_server"}
\* the eight dimension scores, under the names the result record gives them
DimensionFields == {"ramp_up_time", "bus_factor", "performance_claims", "license",
                    "dataset_and_code_score", "dataset_quality", "code_quality"}
LatencyFields == LatencyKeySet \cup {"net_score_latency"}
ResultFields ==
    {"net_score", "size_score"} \cup DimensionFields \cup LatencyFields

InUnit(x) == QLe(Zero, x) /\ QLe(x, One)
Returned == pc = "done"
\* a result record without its latency fields
ScorePart(r) == [k \in DOMAIN r \ LatencyFields |-> r[k]]
\* the eight reported per-dimension latencies
Reported(r) == {r[k] : k \in LatencyKeySet}
\* the linear size score of the context's total_bytes
LinearSize(c) == clamp01(size_score(Get(c, "total_bytes", 0), SIZE_L, SIZE_U))
Overrides(c) == Get(c, "latencies", EmptyMap)

C2_NetScoreIsWeightedSum ==
    Returned =>
        result.net_score = clamp01(QSum(<<
            QMul(Q(5, 100), LinearSize(ctx)),
            QMul(Q(20, 100), result.license),
            QMul(Q(15, 100), result.ramp_up_time),
            QMul(Q(10, 100), result.bus_factor),
            QMul(Q(20, 100), result.dataset_and_code_score),
            QMul(Q(5, 100), result.dataset_quality),
            QMul(Q(15, 100), result.code_quality),
            QMul(Q(10, 100), result.performance_claims)>>))

\* C2's case: a returned record whose eight scores are not all equal and whose
\* linear size score differs from every device-class value.
C2_Witness ==
    /\ Returned
    /\ \A dev \in DeviceKeys : result.size_score[dev] # LinearSize(ctx)
    /\ result.license # result.bus_factor
    /\ result.ramp_up_time # result.code_quality \/ result.dataset_quality # LinearSize(ctx)
    /\ QLt(Zero, result.net_score) /\ QLt(result.net_score, One)

\* C3: the eight weights are non-negative and sum to exactly 1, and the keys the
\* net-score sum iterates over are exactly the keys of the scores mapping.
C3_WeightsSumToOne ==
    /\ \A k \in DOMAIN DEFAULT_WEIGHTS : QLe(Zero, DEFAULT_WEIGHTS[k])
    /\ WeightedSum(DOMAIN DEFAULT_WEIGHTS, [k \in DOMAIN DEFAULT_WEIGHTS |-> One],
                   DEFAULT_WEIGHTS) = One
    /\ Cardinality(DOMAIN DEFAULT_WEIGHTS) = NumMetrics
    /\ pc \in {"aggregate", "done"} => DOMAIN Scores(m) = DOMAIN DEFAULT_WEIGHTS

\* C3's case: the sum has been taken over a full scores mapping, for the context
\* of tests/test_scoring.py, and came to 0.9081944...
C3_Witness ==
    /\ Returned
    /\ DOMAIN Scores(m) = DOMAIN DEFAULT_WEIGHTS
    /\ ctx = GoodCtx
    /\ result.net_score = Q(6539, 7200)

\* C4: a later call on the same context returns the scores the first call
\* returned (net_score, the dimension scores, the device-class size scores),
\* whatever the latencies of the two calls are.
C4_SameContextSameScores ==
    (Returned /\ calls >= 2) => ScorePart(result) = ScorePart(first)

\* C4's case: two calls on one context whose latencies all differ.
C4_Witness ==
    /\ Returned
    /\ calls >= 2
    /\ \A k \in LatencyFields : result[k] # first[k]
    /\ QLt(Zero, result.net_score)

\* the pairs the eight metrics return for context c (their scores do not
\* depend on the timing, which is taken as 0 ticks in generator state 0)
MetricsOf(c) ==
    [k \in ScoreKeySet |->
        LET i == CHOOSE j \in 1..NumMetrics : ScoreKeys[j] = k
        IN timed_wrapper(FnNames[i], RawCall(i, c), 0, 0)]
\* the scores compute_all_scores returns for context c
ScoresFor(c) == ScorePart(ResultRecord(c, MetricsOf(c), 0))

\* mp with every key of `keys` it lacks set to v
FillMap(mp, keys, v) ==
    [k \in DOMAIN mp \cup keys |-> IF k \in DOMAIN mp THEN mp[k] ELSE v]

\* context c with every absent key set as C5 says: numbers 0, booleans false,
\* license_text empty, mappings empty (and their absent keys 0 or false)
ClaimedDefaults(c) ==
    [total_bytes |-> Get(c, "total_bytes", 0),
     license_text |-> Get(c, "license_text", <<>>),
     docs |-> FillMap(Get(c, "docs", EmptyMap),
                      {"readme", "quickstart", "tutorials", "api_docs", "reproducibility"}, Zero),
     contributors |-> Get(c, "contributors", 0),
     dataset_present |-> Get(c, "dataset_present", FALSE),
     code_present |-> Get(c, "code_present", FALSE),
     dataset_doc |-> FillMap(Get(c, "dataset_doc", EmptyMap),
                             {"source", "license", "splits", "ethics"}, Zero),
     flake8_errors |-> Get(c, "flake8_errors", 0),
     isort_sorted |-> Get(c, "isort_sorted", FALSE),
     mypy_errors |-> Get(c, "mypy_errors", 0),
     perf |-> FillMap(Get(c, "perf", EmptyMap), {"benchmarks", "citations"}, FALSE),
     latencies |-> Get(c, "latencies", EmptyMap)]

\* C5: the scores returned for a context with absent keys are those of the
\* context with every absent number set to 0, every absent boolean
\* (isort_sorted among them) to false, absent text to "" and absent mappings to
\* the empty mapping.
C5_AbsentKeysAsClaimed ==
    Returned => ScorePart(result) = ScoresFor(ClaimedDefaults(ctx))

\* C5 but for isort_sorted: the scores returned are those of the context with
\* absent keys set as C5 says, an absent isort_sorted being set to true.
C5_AbsentKeysButIsort ==
    Returned =>
        ScorePart(result) =
            ScoresFor(With(ClaimedDefaults(ctx), "isort_sorted", Get(ctx, "isort_sorted", TRUE)))

\* C6: a returned record has exactly the 18 documented keys; size_score maps
\* exactly the four device classes to numbers, every other score is one number
\* and every latency one integer.
C6_ResultShape ==
    Returned =>
        /\ DOMAIN result = ResultFields
        /\ Cardinality(ResultFields) = 18
        /\ DOMAIN result.size_score = DeviceKeys
        /\ \A dev \in DeviceKeys : DOMAIN result.size_score[dev] = {"n", "d"}
        /\ \A k \in DimensionFields \cup {"net_score"} : DOMAIN result[k] = {"n", "d"}
        /\ \A k \in LatencyFields : result[k] \in Int

\* C6's case: the record returned for the empty context.
C6_Witness == Returned /\ ctx = EmptyMap /\ result.size_score.aws_server = One

\* context c without the keys of latencies that are none of the eight names
StripUnknown(c) ==
    IF "latencies" \in DOMAIN c
    THEN With(c, "latencies",
              [k \in DOMAIN c.latencies \cap LatencyKeySet |-> c.latencies[k]])
    ELSE c

\* C7: a key of ctx['latencies'] with an integer value v >= 1 is reported as v
\* whatever the metric itself returned; a key absent from it is reported as the
\* latency the metric's wrapper returned; keys that are none of the eight names
\* change no field of the record.
C7_OverridesPreferred ==
    Returned =>
        /\ \A i \in 1..NumMetrics :
            LET k == LatencyKeys[i]
                local == m[ScoreKeys[i]][2]
            IN /\ (k \in DOMAIN Overrides(ctx) /\ Overrides(ctx)[k] >= 1)
                    => result[k] = Overrides(ctx)[k]
               /\ k \notin DOMAIN Overrides(ctx) => result[k] = local
        /\ result = ResultRecord(StripUnknown(ctx), m, elapsed_ms)

\* C7's case: a record for a context that overrides size_score_latency with a
\* value >= 1 other than the metric's own, leaves the seven other keys out and
\* carries an unknown key.
C7_Witness ==
    /\ Returned
    /\ "size_score_latency" \in DOMAIN Overrides(ctx)
    /\ Overrides(ctx)["size_score_latency"] >= 1
    /\ Overrides(ctx)["size_score_latency"] # m["size"][2]
    /\ "license_latency" \notin DOMAIN Overrides(ctx)
    /\ "unknown_latency" \in DOMAIN Overrides(ctx)
    /\ StripUnknown(ctx) # ctx

\* C8: every one of the eight reported latencies is an integer >= 1.
C8_LatenciesAtLeastOne ==
    Returned => \A k \in LatencyKeySet : result[k] \in Nat /\ result[k] >= 1

\* C8's case: a record for a context whose override of a key is 0 or negative.
C8_Witness ==
    /\ Returned
    /\ \E k \in LatencyKeySet \cap DOMAIN Overrides(ctx) :
        Overrides(ctx)[k] <= 0 /\ result[k] = 1

\* C9 as stated: net_score_latency is the largest reported latency plus the
\* elapsed milliseconds, for every elapsed time including 0.
C9_MaxPlusElapsed ==
    Returned => result.net_score_latency = MaxOf(Reported(result)) + elapsed_ms

\* C9 amended: net_score_latency is the largest reported latency plus the
\* overhead max(1, elapsed milliseconds); it is taken from the maximum, not the
\* sum, of the eight latencies.
C9_MaxPlusOverhead ==
    Returned => result.net_score_latency = MaxOf(Reported(result)) + Max(1, elapsed_ms)

\* C9's case: a call that took less than a millisecond.
C9_Witness ==
    /\ Returned
    /\ elapsed_ms = 0
    /\ result.net_score_latency = MaxOf(Reported(result)) + 1

\* C10: the latency a decorated metric returns is the time measured around the
\* call, floored to whole milliseconds (0 for a call shorter than 1 ms).
C10_ReturnsMeasuredTime ==
    \A i \in 1..NumMetrics :
        ScoreKeys[i] \in DOMAIN m => m[ScoreKeys[i]][2] = dur[i] \div TicksPerMs

\* C11: a metric call reads and writes no process-global state: every call of a
\* decorated metric leaves the state of the global random generator as it found
\* it (so that the pair a call returns cannot depend on the calls before it).
C11_MetricCallsLeaveGlobalsAlone == [][CallMetric => rng' = rng]_vars

\* C12: no step of compute_all_scores changes the context it was given: the
\* mapping and its nested mappings docs, dataset_doc, perf and latencies keep
\* their keys and values, also where a key is absent and its default is used.
C12_ContextUnchanged == [][ctx' = ctx]_vars

\* C12's case: a call has returned for a context that lacks docs, perf and
\* latencies, their defaults having been used, and the context still lacks them.
C12_Witness ==
    /\ Returned
    /\ DOMAIN ctx \cap {"docs", "perf", "latencies"} = {}
    /\ "total_bytes" \in DOMAIN ctx
    /\ result.ramp_up_time = Zero
    /\ result.performance_claims = Zero

\* main has exited
Exited == mpc = "exited"
\* main has submitted its models to the thread pool
Pooled == fut # <<>>
Occurrences(seq, x) == Cardinality({i \in DOMAIN seq : seq[i] = x})
\* the URLs of the recorded failures and of the records written, in order
FailureUrls == [i \in DOMAIN failures |-> failures[i][1]]
RecordNames == [i \in DOMAIN stdout |-> stdout[i].name]
\* the scores of a written record
RecordScores(rec) == [k \in DOMAIN rec \ (LatencyFields \cup {"name", "category"}) |-> rec[k]]
\* without --fail-fast: each model URL that raises has its failure recorded, no
\* other URL has one, and each other model URL has its record on stdout, with
\* the scores compute_all_scores gives its context on its own
FailuresIsolated ==
    \A i \in DOMAIN models :
        LET u == models[i]
        IN IF build_ctx_raises(u) # ""
           THEN /\ Occurrences(FailureUrls, u) >= Occurrences(models, u)
                /\ Occurrences(RecordNames, u) = 0
           ELSE /\ Occurrences(FailureUrls, u) = 0
                /\ Occurrences(RecordNames, u) >= Occurrences(models, u)
                /\ \A j \in DOMAIN stdout :
                    stdout[j].name = u
                        => RecordScores(stdout[j]) = ScoresFor(build_ctx_from_url(u))

C13_IsolatedWhenRecorded ==
    (/\ Exited
     /\ Pooled
     /\ ~args.fail_fast
     /\ ~RecordFailureRaises
     /\ \E i \in DOMAIN models : build_ctx_raises(models[i]) # "")
        => FailuresIsolated

\* the call of the metric function fn has returned
FnReturned(fn) == call.fn = fn /\ ret # <<>>
\* the score the decorated function fn_name returns when fn returns `score`
Decorated(i, score) == timed_wrapper(FnNames[i], score, 0, rng)[1]

\* C14: size_score(total_bytes, L, U) returns 0.0 for every total_bytes when
\* U <= L, and otherwise (U - total_bytes)/(U - L) clamped to [0,1]: exactly 1.0
\* for total_bytes <= L, exactly 0.0 for total_bytes >= U, and no larger for a
\* larger total_bytes.
C14_SizeScoreLinear ==
    FnReturned("size_score") =>
        LET tb == call.total_bytes
            L == call.L
            U == call.U
        IN /\ U <= L => ret[1] = Zero
           /\ U > L =>
                /\ ret[1] = QMax(Zero, QMin(One, QDiv(F(U - tb), F(U - L))))
                /\ tb <= L => ret[1] = One
                /\ tb >= U => ret[1] = Zero
                /\ \A tb2 \in SizeInputs :
                        tb2 >= tb => QLe(Decorated(1, size_score(tb2, L, U)), ret[1])

\* size_score has returned for thresholds with U = L and a size below them
C14_Witness ==
    /\ FnReturned("size_score")
    /\ call.U = call.L
    /\ call.total_bytes < call.L
    /\ ret[1] = Zero

\* license_text, compared case-insensitively, names LGPL v2.1
NamesLgpl21(license_text) ==
    \E pat \in {LGPL_DASH, LGPL_V, LGPL_LONG} : Contains(Lower(license_text), pat)

\* C15: license_score returns 0.5 when the license text is empty, 1.0 when the
\* text, compared case-insensitively, contains "lgpl-2.1", "lgpl v2.1" or
\* "gnu lesser general public license v2.1" anywhere, and 0.0 for every other
\* text, text of blanks only and other LGPL versions included.
C15_LicenseThreeValues ==
    FnReturned("license_score") =>
        LET t == call.license_text
        IN /\ ret[1] \in {Zero, Half, One}
           /\ ret[1] = Half <=> t = <<>>
           /\ ret[1] = One <=> NamesLgpl21(t)
           /\ t \in {TXT_SPACE, TXT_LGPL3, TXT_MIT} => ret[1] = Zero
           /\ t \in {TXT_LGPL, TXT_LGPL_V, TXT_GNU} => ret[1] = One

\* license_score has returned 1.0 for a text that holds "LGPL V2.1" in capitals
\* between other words
C15_Witness ==
    /\ FnReturned("license_score")
    /\ call.license_text = TXT_LGPL_V
    /\ ret[1] = One

\* what bus_factor_score(c, k) returns to its caller
BusFactor(c, k) == Decorated(4, bus_factor_score_float(c, k))
\* the real number c / (c + BUS_K)
ExactShare(c) == Q(c, c + BUS_K)
\* the distance of 1.0 from the float below it
Ulp == Q(1, Pow2(MantBits))

\* C16, as claimed: bus_factor_score(c, k) equals c'/(c'+k) with c' = max(0, c)
\* when c'+k > 0 and 0 otherwise; for k = 5 a larger c >= 0 gives a strictly
\* larger score; every negative c gives the score of c = 0.
C16_BusFactorStrict ==
    FnReturned("bus_factor_score") =>
        LET c == Max(0, call.contributors)
            k == call.k
        IN /\ ret[1] = IF c + k > 0 THEN FDiv(F(c), F(c + k)) ELSE Zero
           /\ k = BUS_K =>
                \A c2 \in 0..MaxContrib : c < c2 => QLt(ret[1], BusFactor(c2, k))
           /\ call.contributors < 0 => ret[1] = BusFactor(0, k)

\* C16, amended: bus_factor_score(c, k) equals c'/(c'+k) clamped to [0,1] when
\* c'+k > 0 and 0 otherwise; for k = 5 a larger c >= 0 never gives a smaller
\* score, and gives a strictly larger one when the exact quotients differ by
\* more than the rounding of a float, as those of 1, 5 and 20 do; every negative
\* c gives the score of c = 0.
C16_BusFactorSaturating ==
    FnReturned("bus_factor_score") =>
        LET c == Max(0, call.contributors)
            k == call.k
        IN /\ ret[1] = IF c + k > 0 THEN QMax(Zero, QMin(One, FDiv(F(c), F(c + k))))
                        ELSE Zero
           /\ k = BUS_K =>
                \A c2 \in 0..MaxContrib :
                    c < c2 =>
                        /\ QLe(ret[1], BusFactor(c2, k))
                        /\ QLt(Ulp, QSub(ExactShare(c2), ExactShare(c)))
                             => QLt(ret[1], BusFactor(c2, k))
           /\ k = BUS_K /\ c = 1 => QLt(ret[1], BusFactor(5, k))
           /\ k = BUS_K /\ c = 5 => QLt(ret[1], BusFactor(20, k))
           /\ call.contributors < 0 => ret[1] = BusFactor(0, k)

\* bus_factor_score has returned, for k = 5, the score it returns for one
\* contributor less
C16_Witness ==
    /\ FnReturned("bus_factor_score")
    /\ call.k = BUS_K
    /\ call.contributors >= 1
    /\ ret[1] = BusFactor(call.contributors - 1, BUS_K)

\* bus_factor_score has returned 1.0 for a negative k, where c / (c + k) > 1
C16_Clamped ==
    /\ FnReturned("bus_factor_score")
    /\ call.k < 0
    /\ call.contributors + call.k > 0
    /\ ret[1] = One

\* max(0, 1 - count/ceiling), and 0 when the ceiling is not positive
Headroom(count, ceiling) ==
    IF ceiling <= 0 \/ count >= ceiling THEN Zero ELSE Q(ceiling - count, ceiling)
\* what code_quality_score(e, s, t, emax, tmax) returns to its caller
CodeQuality(e, s, t, emax, tmax) == Decorated(7, code_quality_score(e, s, t, emax, tmax))

\* C17: for error counts >= 0, code_quality_score(e, s, t) equals
\* 0.4*max(0, 1 - e/emax) + 0.2*(1 if s else 0) + 0.4*max(0, 1 - t/tmax), a
\* component being 0 when its ceiling is <= 0; it is 1.0 for (0, true, 0) and the
\* default ceilings, 0.0 when both counts reach their ceilings and s is false,
\* and no larger for a larger error count.
C17_CodeQualityWeighted ==
    FnReturned("code_quality_score") =>
        LET e == call.flake8_errors
            s == call.isort_sorted
            t == call.mypy_errors
            emax == call.emax
            tmax == call.tmax
        IN /\ e >= 0 /\ t >= 0 =>
                QMul(F(10), ret[1]) =
                    QAdd(QAdd(QMul(F(4), Headroom(e, emax)), F(2 * BoolInt(s))),
                         QMul(F(4), Headroom(t, tmax)))
           /\ e = 0 /\ s /\ t = 0 /\ emax = EMAX /\ tmax = TMAX => ret[1] = One
           /\ e >= emax /\ t >= tmax /\ ~s => ret[1] = Zero
           /\ \A e2 \in ErrorCounts :
                e2 >= e => QLe(CodeQuality(e2, s, t, emax, tmax), ret[1])
           /\ \A t2 \in ErrorCounts :
                t2 >= t => QLe(CodeQuality(e, s, t2, emax, tmax), ret[1])

\* code_quality_score has returned 0.6 for sorted imports, no type errors and
\* far more style errors than the ceiling
C17_Witness ==
    /\ FnReturned("code_quality_score")
    /\ call.flake8_errors > call.emax
    /\ call.emax = EMAX
    /\ call.tmax = TMAX
    /\ call.isort_sorted
    /\ call.mypy_errors = 0
    /\ ret[1] = Q(6, 10)

\* (number of true arguments) / 2
HalfPerTrue(a, b) ==
    CASE a /\ b -> One
      [] a /\ ~b -> Half
      [] ~a /\ b -> Half
      [] OTHER -> Zero

\* C18: dataset_and_code_score(d, c) and perf_claims_score(b, c) each return
\* (number of true arguments)/2: 0.0 for (false,false), 0.5 for (true,false) and
\* for (false,true), 1.0 for (true,true); exchanging the two arguments does not
\* change the score.
C18_HalfPerTrueArgument ==
    /\ FnReturned("dataset_and_code_score") =>
            /\ ret[1] = HalfPerTrue(call.dataset_present, call.code_present)
            /\ ret[1] = Decorated(5, dataset_and_code_score(call.code_present,
                                                            call.dataset_present))
    /\ FnReturned("perf_claims_score") =>
            /\ ret[1] = HalfPerTrue(call.benchmarks_present, call.citations_present)
            /\ ret[1] = Decorated(8, perf_claims_score(call.citations_present,
                                                       call.benchmarks_present))

\* dataset_and_code_score has returned 0.5 for a dataset without code
C18_Witness ==
    /\ FnReturned("dataset_and_code_score")
    /\ call.dataset_present
    /\ ~call.code_present
    /\ ret[1] = Half

\* the permutations of 1..n
Perms(n) == {p \in [1..n -> 1..n] : \A i, j \in 1..n : p[i] = p[j] => i = j}
Perms5 == Perms(5)
Perms4 == Perms(4)
\* what the two functions return to their callers for the inputs v
Rampup(v) == Decorated(3, rampup_score_float(v[1], v[2], v[3], v[4], v[5]))
DatasetQuality(v) == Decorated(6, dataset_quality_score_float(v[1], v[2], v[3], v[4]))
\* the arithmetic mean of the inputs v, as a real number
Mean(v) == QDiv(QSum(v), F(Len(v)))
\* | a - b | <= tol
Within(a, b, tol) == QLe(QSub(a, b), tol) /\ QLe(QSub(b, a), tol)
\* the rounding error left by the additions and the division of a mean of at
\* most five floats of [0, 1]
MeanTol == QMul(F(3), Ulp)
\* every input is 0, 0.5 or 1
HalfSteps(v) == \A i \in DOMAIN v : v[i] \in {Zero, Half, One}

\* C19, as claimed: rampup_score returns the arithmetic mean of its five inputs
\* and dataset_quality_score the arithmetic mean of its four inputs (the float
\* nearest to it), and no permutation of the inputs changes the score.
C19_MeanOfInputs ==
    /\ FnReturned("rampup_score") =>
            /\ ret[1] = Fl(Mean(call.vals))
            /\ \A p \in Perms5 : Rampup([i \in 1..5 |-> call.vals[p[i]]]) = ret[1]
    /\ FnReturned("dataset_quality_score") =>
            /\ ret[1] = Fl(Mean(call.vals))
            /\ \A p \in Perms4 : DatasetQuality([i \in 1..4 |-> call.vals[p[i]]]) = ret[1]

\* C19, amended: for inputs in [0,1] each function returns the arithmetic mean
\* of its inputs up to the rounding of its left-to-right float sum and of the
\* division, and a permutation of the inputs changes the score by no more than
\* that rounding; for inputs that are 0, 0.5 or 1 the score is the float nearest
\* to the mean and no permutation changes it.
C19_MeanUpToRounding ==
    /\ FnReturned("rampup_score") =>
            /\ Within(ret[1], Mean(call.vals), MeanTol)
            /\ \A p \in Perms5 :
                    LET v == [i \in 1..5 |-> call.vals[p[i]]]
                    IN /\ Within(Rampup(v), ret[1], QMul(F(2), MeanTol))
                       /\ HalfSteps(call.vals) => Rampup(v) = ret[1]
            /\ HalfSteps(call.vals) => ret[1] = Fl(Mean(call.vals))
    /\ FnReturned("dataset_quality_score") =>
            /\ Within(ret[1], Mean(call.vals), MeanTol)
            /\ \A p \in Perms4 :
                    LET v == [i \in 1..4 |-> call.vals[p[i]]]
                    IN /\ Within(DatasetQuality(v), ret[1], QMul(F(2), MeanTol))
                       /\ HalfSteps(call.vals) => DatasetQuality(v) = ret[1]
            /\ HalfSteps(call.vals) => ret[1] = Fl(Mean(call.vals))

\* rampup_score has returned a score that it does not return for the same
\* inputs in another order
C19_Witness ==
    /\ FnReturned("rampup_score")
    /\ \E p \in Perms5 : Rampup([i \in 1..5 |-> call.vals[p[i]]]) # ret[1]

\* the sizes the contexts give total_bytes
ContextSizes == {Get(c, "total_bytes", 0) : c \in Contexts}
\* an/ad <= bn/bd for an, bn >= 0 and ad, bd > 0, decided on the continued
\* fractions of the two numbers, without products
RECURSIVE CfLe(_, _, _, _)
CfLe(an, ad, bn, bd) ==
    LET qa == an \div ad
        qb == bn \div bd
        ra == an % ad
        rb == bn % bd
    IN IF qa # qb THEN qa < qb
       ELSE IF ra = 0 THEN TRUE
       ELSE IF rb = 0 THEN FALSE
       ELSE CfLe(bd, rb, ad, ra)
\* a <= b for rationals a, b >= 0
LeNonNeg(a, b) == CfLe(a.n, a.d, b.n, b.d)

\* C20: the size_score mapping of a returned record is computed from the
\* context's raw total_bytes by 1/(1 + (max(0, total_bytes)/C)^a) for each of
\* the four devices, not from the linear size score: it is 1.0 when
\* total_bytes <= 0, 0.5 when total_bytes is the device's capacity C, positive
\* where the linear score is 0, and no larger for a larger total_bytes.
C20_DeviceCurve ==
    Returned =>
        LET tb == Get(ctx, "total_bytes", 0)
            S == Max(0, tb)
        IN \A dev \in DeviceKeys :
            LET C == DeviceParams[dev][1]
                a == DeviceParams[dev][2]
                v == result.size_score[dev]
                r == Q(S, C)
            IN /\ tb <= 0 => v = One
               /\ tb = C => v = Half
               /\ QLt(Zero, v)
               \* a = 2: v * (C^2 + S^2) = C^2
               /\ a = F(2) => QMul(v, F(C * C + S * S)) = F(C * C)
               \* a = 1.5: 1/v - 1 = (S/C)^1.5 lies between S/C and (S/C)^2
               /\ a = Q(3, 2) =>
                    LET x == QSub(QDiv(One, v), One)
                    IN /\ LeNonNeg(QMin(r, QMul(r, r)), x)
                       /\ LeNonNeg(x, QMax(r, QMul(r, r)))
               /\ \A tb2 \in ContextSizes :
                    tb2 >= tb => LeNonNeg(device_size_scores(tb2)[dev], v)

\* a record has been returned for a context whose total_bytes is the capacity
\* of desktop_pc, where the linear size score is 0
C20_Witness ==
    /\ Returned
    /\ Get(ctx, "total_bytes", 0) = DeviceParams.desktop_pc[1]
    /\ result.size_score.desktop_pc = Half
    /\ LinearSize(ctx) = Zero
    /\ QLt(Half, result.size_score.aws_server)

\* C21: clamp01(x) is 0.0 for x < 0, 1.0 for x > 1 and x itself for
\* 0 <= x <= 1; clamping its result again changes nothing, and clamp01 changes
\* no score that a decorated metric function has returned.
C21_ClampIdempotent ==
    /\ FnReturned("clamp01") =>
            /\ QLt(call.x, Zero) => ret[1] = Zero
            /\ QLt(One, call.x) => ret[1] = One
            /\ InUnit(call.x) => ret[1] = call.x
            /\ clamp01(ret[1]) = ret[1]
    /\ Len(ret) = 2 => clamp01(ret[1]) = ret[1]

\* clamp01 has returned 1.0 for an argument above 1
C21_Witness ==
    /\ FnReturned("clamp01")
    /\ QLt(One, call.x)
    /\ ret[1] = One

\* C22: for the end-to-end context of tests/test_scoring.py (GoodCtx),
\* compute_all_scores returns a net_score strictly greater than 0.5.
C22_GoodContextAboveHalf ==
    Returned /\ ctx = GoodCtx => QLt(Half, result.net_score)

\* a second call on the end-to-end context has returned, with net_score 0.908...
C22_Witness ==
    /\ Returned
    /\ ctx = GoodCtx
    /\ calls = 2
    /\ QLt(Q(9, 10), result.net_score)
    /\ QLt(result.net_score, Q(91, 100))

\* the keys of a context that compute_all_scores reads to score it, and the
\* keys it reads in the nested mappings
ScoredKeys == ScalarKeys \cup MappingKeys
NestedKeys ==
    [docs |-> {"readme", "quickstart", "tutorials", "api_docs", "reproducibility"},
     dataset_doc |-> {"source", "license", "splits", "ethics"},
     perf |-> {"benchmarks", "citations"}]
\* the model-info request of the call failed or gave no JSON object with fields
NoModelInfo == call.info.kind # "object" \/ DOMAIN call.info.body = {}
\* a step of the context construction of the call raises
StepRaises ==
    \/ extract_model_id(call.url).raises
    \/ call.info.kind = "object" /\ EstimateRaises(call.info.body)

C24_TotalBytesIsSumOfSizes ==
    FnReturned("build_context_from_api")
    /\ ~NoModelInfo /\ ~StepRaises /\ call.files.kind = "array"
        => ret[1].total_bytes = calculate_model_size(call.files.body)

\* the characters a and b are the same letter, b being in lower case
SameLetter(a, b) == a = b \/ (a \in DOMAIN UpperToLower /\ UpperToLower[a] = b)
\* url holds the lower-case text pat, in whatever case
Mentions(url, pat) ==
    \E i \in 0..(Len(url) - Len(pat)) : \A j \in 1..Len(pat) : SameLetter(url[i + j], pat[j])
\* the category the rule gives a URL
CategoryOf(url) ==
    IF Mentions(url, HF_DATASETS) THEN "DATASET"
    ELSE IF Mentions(url, HF) THEN "MODEL"
    ELSE "CODE"
ModelUrl(url) == CategoryOf(url) = "MODEL"
OtherUrl(url) == CategoryOf(url) # "MODEL"
InvalidUrls == [i \in DOMAIN invalid |-> invalid[i][1]]

\* C25: once main has classified the URLs of its file, the models it submits
\* for scoring are exactly the URLs that hold "huggingface.co" but not
\* "huggingface.co/datasets" (in whatever case), in the file's order; every
\* other URL is listed as invalid with its category, DATASET when it holds
\* "huggingface.co/datasets" and CODE otherwise; one future is submitted per
\* model; and every record on stdout bears the name of a model URL of the file.
C25_OnlyModelsScored ==
    mpc # "start" =>
        /\ models = SelectSeq(urls, ModelUrl)
        /\ InvalidUrls = SelectSeq(urls, OtherUrl)
        /\ \A i \in DOMAIN invalid : invalid[i][2] = CategoryOf(invalid[i][1])
        /\ Pooled => DOMAIN fut = DOMAIN models
        /\ \A i \in DOMAIN stdout :
                /\ ModelUrl(stdout[i].name)
                /\ \E j \in DOMAIN urls : urls[j] = stdout[i].name

\* C25's case: a file with a model URL written in capitals, a dataset URL and
\* a repository URL; main has exited, the model's record is on stdout and the
\* two other URLs are listed as invalid, as DATASET and as CODE.
C25_Witness ==
    /\ Exited
    /\ urls = <<U_SQUAD, U_BERT, U_REPO>>
    /\ RecordNames = <<U_BERT>>
    /\ invalid = <<<<U_SQUAD, "DATASET">>, <<U_REPO, "CODE">>>>

\* the run's inputs are all in order: a URL file that is given, readable and not
\* empty, whose URLs are all model URLs, none of which fails to be processed
AllInOrder ==
    /\ args.url_file = "urls.txt"
    /\ urls # <<>>
    /\ \A i \in DOMAIN urls : ModelUrl(urls[i]) /\ build_ctx_raises(urls[i]) = ""

\* main, or a worker of its pool, has a step to take
CanStep ==
    \/ mpc \in {"start", "finish"}
    \/ mpc = "fallback" /\ idx \in 1..Len(models)
    \/ /\ PoolAlive
       /\ \/ \E i \in DOMAIN fut : fut[i].state \in {"pending", "built"}
          \/ mpc = "loop" /\ \E i \in DOMAIN fut \ handled : fut[i].state = "finished"
          \/ mpc \in {"join", "abort"} /\ Settled
\* the steps a worker has left in a future
WorkLeft(f) == CASE f.state = "pending" -> 2 [] f.state = "built" -> 1 [] OTHER -> 0
RECURSIVE SumWork(_)
SumWork(fs) == IF fs = <<>> THEN 0 ELSE WorkLeft(Head(fs)) + SumWork(Tail(fs))
\* how far main is from its exit
PhaseRank ==
    CASE mpc = "start" -> 6 [] mpc = "loop" -> 5 [] mpc \in {"join", "abort"} -> 4
      [] mpc = "fallback" -> 3 [] mpc = "finish" -> 1 [] OTHER -> 0
\* a bound on the steps a run has left
StepsLeft ==
    20 * PhaseRank + SumWork(fut) + (Len(fut) - Cardinality(handled))
        + (IF mpc = "fallback" THEN Len(models) - idx + 1 ELSE 0)

C26_WitnessFailure ==
    /\ Exited
    /\ exit_status = 1
    /\ invalid = <<>>
    /\ Len(stdout) = 1
    /\ Len(failures) = 1

\* a step that writes nothing to stdout and records no failure
Quiet == stdout' = stdout /\ failures' = failures

C27_StopsWhenRecorded ==
    [][args.fail_fast /\ failures # <<>> /\ ~RecordFailureRaises => Quiet]_vars

\* C27's case: a run with --fail-fast has exited having written one record and
\* then recorded one failure, a third model having been left unreported.
C27_Witness ==
    /\ Exited
    /\ args.fail_fast
    /\ ~RecordFailureRaises
    /\ Len(models) = 3
    /\ Len(stdout) = 1
    /\ Len(failures) = 1

ResultNames == [i \in DOMAIN results |-> results[i].name]
\* no URL has more records, more summary entries, or more records and failures
\* together, than it has occurrences among the models
OncePerOccurrence ==
    \A u \in UrlPool :
        /\ Occurrences(RecordNames, u) <= Occurrences(models, u)
        /\ Occurrences(ResultNames, u) <= Occurrences(models, u)
        /\ Occurrences(RecordNames, u) + Occurrences(FailureUrls, u)
                <= Occurrences(models, u)

C28_OnceWhenRecorded == ~RecordFailureRaises => OncePerOccurrence

\* C28's case: the same model URL twice in the file and a failing one, under
\* --summary; main has exited with one record and one summary entry for each
\* occurrence and the failure recorded once.
C28_Witness ==
    /\ Exited
    /\ args.summary
    /\ ~RecordFailureRaises
    /\ Occurrences(models, U_GPT2) = 2
    /\ Occurrences(RecordNames, U_GPT2) = 2
    /\ Occurrences(ResultNames, U_GPT2) = 2
    /\ Len(failures) = 1

\* the bound 0.9 + 0.1 * c/(c + 5) on net_score, c being max(0, contributors)
NetBound(contributors) ==
    QAdd(Q(9, 10), QMul(Q(1, 10), ExactShare(Max(0, contributors))))

\* C29, as claimed: the net_score compute_all_scores returns is strictly less
\* than 1.0 and at most 0.9 + 0.1*c/(c+5), whatever the seven other dimensions
\* score.
C29_NetBelowOne ==
    FnReturned("compute_all_scores") =>
        /\ QLt(ret[1], One)
        /\ QLe(ret[1], NetBound(call.contributors))

\* C29, amended: the net_score compute_all_scores returns is at most 1.0, and
\* at most 0.9 + 0.1*c/(c+5) up to the rounding of the float sum (four times
\* the distance of 1.0 from the float below it), whatever the seven other
\* dimensions score.
C29_NetAtMostOne ==
    FnReturned("compute_all_scores") =>
        /\ QLe(ret[1], One)
        /\ QLe(ret[1], QAdd(NetBound(call.contributors), QMul(F(4), Ulp)))

\* C29's case: the seven other dimensions score 1.0, bus_factor scores less
\* than 1.0 in exact arithmetic, and the net_score returned is 1.0.
C29_Witness ==
    /\ FnReturned("compute_all_scores")
    /\ \A k \in OtherKeys : call.others[k] = One
    /\ call.contributors > 0
    /\ ret[1] = One

====
